---- MODULE Spec2Model ----
(***************************************************************************)
(* The identity store, the authorization checks and the resource-inventory *)
(* cache of the cloud-cost dashboard backend (backend/app), as a state      *)
(* machine.  One action per HTTP handler; a handler's whole body, its       *)
(* permission dependency included, is one atomic step (one committed        *)
(* database transaction).                                                   *)
(*                                                                          *)
(* Columns that no modelled check reads (username, email, password hash,    *)
(* status, timestamps) are left out of the rows.  The one place where they  *)
(* decide control flow, register's "already registered" rejection, is kept  *)
(* as the input `clash`.                                                    *)
(***************************************************************************)
EXTENDS Integers, Sequences, FiniteSets, TLC

VARIABLES users, nextUserId, role_permissions, user_permissions,
          client_permissions, cache, now, resp, sessions, last_inventory,
          tokens, active_connections, endpoints

vars == <<users, nextUserId, role_permissions, user_permissions,
          client_permissions, cache, now, resp, sessions, last_inventory,
          tokens,
          active_connections, endpoints>>

(***************************************************************************)
(* Bounds of the model.                                                    *)
(***************************************************************************)
\* register and create_user stop when MaxUsers ids have been issued
MaxUsers == 3
\* tenants (clients) have ids 1..MaxClients
MaxClients == 2
\* get_resource_inventory stops fetching when the cache holds MaxCacheRows rows
MaxCacheRows == 3
\* the clock stops at MaxNow minutes
MaxNow == 45
\* one step of the clock, in minutes
TickMinutes == 15
\* requests that can be in flight at once, each with its own get_db session
MaxSessions == 2
\* a sub-service of a provider lists at most MaxItems resources
MaxItems == 2
\* an analysis emits at most MaxFindings recommendations
MaxFindings == 4
\* websockets that are opened, each by one call of websocket_endpoint
MaxSockets == 3
\* broadcasts that can be suspended in send_json at once
MaxBroadcasts == 1
Tenants == 1..MaxClients

(***************************************************************************)
(* Seed data.                                                              *)
(***************************************************************************)
\* roles table: role id i has name Roles[i]
Roles == <<"superadmin", "admin", "member">>
RoleIds == 1..Len(Roles)
\* what a request may put in a role field
RoleInputs == {"superadmin", "admin", "member", "owner"}

\* rows of the permissions table that the modelled handlers read
Permissions ==
  {"users.create", "users.edit", "users.delete", "clients.assign",
   "permissions.manage", "metrics.view"}

\* role_permissions as seeded: superadmin holds every permission, admin
\* everything except users.delete and permission management, member views
SeedRolePermissions ==
  [r \in RoleIds |->
     CASE r = 1 -> Permissions
       [] r = 2 -> {"users.create", "users.edit", "clients.assign", "metrics.view"}
       [] OTHER -> {"metrics.view"}]

\* no row / NULL
None == 0

\* the users row written by the bootstrap procedure and by register/create_user
NewUser(role_id, tenant_id) ==
  [role_id |-> role_id, tenant_id |-> tenant_id,
   assigned_client_id |-> None, is_active |-> TRUE]

(***************************************************************************)
(* Queries.                                                                *)
(***************************************************************************)
\* select(Role).where(Role.name == name): the role's id, None when absent
RoleByName(name) ==
  IF \E r \in RoleIds : Roles[r] = name
    THEN CHOOSE r \in RoleIds : Roles[r] = name
    ELSE None

\* user.role_obj.name if user.role_obj else "member"
RoleName(u) == Roles[users[u].role_id]

\* rbac.get_user_permissions: the permissions of the user's role, the empty
\* set when the user row is gone
get_user_permissions(user_id) ==
  IF user_id \notin DOMAIN users
    THEN {}
    ELSE role_permissions[users[user_id].role_id]

\* tokens holds, for every user who logged in, the access token the user
\* carries: the user_id and role claims, the permissions that the login
\* response listed, and whether the token came from /auth/refresh
TokensOf(user_id) == {t \in tokens : t.user_id = user_id}

\* a variant that answers from what the user was given at login, and from
\* the store for a user who never logged in
has_permission_at_login(user_id, permission) ==
  IF TokensOf(user_id) = {}
    THEN user_id # None /\ permission \in get_user_permissions(user_id)
    ELSE \E t \in TokensOf(user_id) : permission \in t.permissions

\* rbac.has_permission on the decoded token's user_id
has_permission(user_id, permission) ==
  IF user_id = None
    THEN FALSE
    ELSE permission \in get_user_permissions(user_id)

\* a bearer token names a user id that was issued at some time; the row may
\* have been deleted since
Callers == 1..(nextUserId - 1)

\* a user id in a request path: an issued id, or one that names no row
UserIds == 1..nextUserId

(***************************************************************************)
(* Responses.  resp is the last request with its response.                 *)
(***************************************************************************)
\* a resources dict: its categories, and for every list in a category the
\* triple <<category, resource type, length of the list>>
NoResources == [categories |-> {}, lists |-> {}, error |-> ""]

\* last_inventory of a client with no get_resource_inventory call yet, or
\* with none since the last force_refresh=true call.  repeat: the call came
\* less than the TTL after the fetched_at that the call before it returned.
NoCall ==
  [at |-> -1, fetched_at |-> -1, resources |-> NoResources, summary |-> {},
   repeat |-> FALSE]

\* the sub-services of fetch_aws_resources that are modelled, with the
\* category of each: EC2 instances, ECS clusters, S3 buckets, VPCs, KMS keys
SubServices == {"ec2", "ecs", "s3", "vpc", "kms"}

Category(service) ==
  CASE service \in {"ec2", "ecs"} -> "compute"
    [] service = "s3" -> "storage"
    [] service = "vpc" -> "networking"
    [] OTHER -> "security"

\* what the provider does when a sub-service is asked: it has `listed`
\* resources; failed_after = -1 when every call succeeds, else the number of
\* resources handled before a call raised
NotAsked == [listed |-> 0, failed_after |-> -1]

NoOutcomes == [service \in SubServices |-> NotAsked]

\* op, caller, target, role, names and requested are the request, the rest the
\* response.  steps lists what an inventory request did to the cache and the
\* provider, in order.
\* before and undo are history: the role's permissions before a grant, and
\* whether a revoke directly follows the successful grant of the same names
\* to the same role.
Response(op, caller, target, status, detail) ==
  [op |-> op, caller |-> caller, target |-> target, status |-> status,
   detail |-> detail, role |-> "", ids |-> {}, perms |-> {},
   names |-> <<>>, requested |-> {}, before |-> {}, undo |-> FALSE,
   steps |-> <<>>, force_refresh |-> FALSE, cached |-> FALSE, fetched_at |-> 0,
   provider |-> "", resources |-> NoResources, summary |-> {},
   credentials |-> FALSE, clients |-> FALSE, outcomes |-> NoOutcomes,
   outcome |-> "", found |-> <<>>, recommendations |-> <<>>,
   llm |-> [outcome |-> "", ids |-> {}],
   delivered |-> {}, disconnected |-> {}, registered |-> {}]

NoResponse == Response("", None, None, 0, "")

\* require_permission's rejection
PermissionDenied(op, caller, target) ==
  Response(op, caller, target, 403, "permission_denied")

\* the database sessions of the requests in flight
Sessions == 1..MaxSessions

\* a session with no request: pc is the statement the request is at,
\* snapshot the rows its DELETE statement saw, deleted and inserted the
\* uncommitted changes of its transaction; for a get_resource_inventory
\* request client_id and force_refresh are its arguments, resources and
\* fetched_at its local variables and steps what it has done
NoSession ==
  [pc |-> "closed", caller |-> None, user_id |-> None, permissions |-> <<>>,
   snapshot |-> {}, deleted |-> {}, inserted |-> {},
   client_id |-> None, force_refresh |-> FALSE, resources |-> NoResources,
   fetched_at |-> -1, steps |-> <<>>]

\* no request is being answered
Idle == resp = NoResponse

\* the response reaches the client; the server is ready for the next request
Deliver ==
  /\ resp # NoResponse
  /\ resp' = NoResponse
  /\ UNCHANGED <<users, nextUserId, role_permissions, user_permissions,
                 client_permissions, cache, now, sessions, last_inventory, tokens,
          active_connections, endpoints>>

(***************************************************************************)
(* /auth/register and /users                                               *)
(***************************************************************************)
\* POST /auth/register
register(payload) ==
  /\ nextUserId <= MaxUsers
  /\ payload.clash # "none" => DOMAIN users # {}
  /\ IF payload.clash # "none"
       THEN /\ resp' = Response("register", None, None, 400, payload.clash)
            /\ UNCHANGED <<users, nextUserId>>
       ELSE LET found == RoleByName(payload.role)
                role == IF found = None THEN RoleByName("member") ELSE found
            IN /\ users' = [u \in DOMAIN users \cup {nextUserId} |->
                             IF u = nextUserId
                               THEN NewUser(role, payload.tenant_id)
                               ELSE users[u]]
               /\ nextUserId' = nextUserId + 1
               /\ resp' = [Response("register", None, nextUserId, 200, "")
                             EXCEPT !.role = Roles[role],
                                    !.perms = role_permissions[role]]
  /\ UNCHANGED <<role_permissions, user_permissions, client_permissions, cache, now, sessions, last_inventory, tokens,
          active_connections, endpoints>>

\* POST /users/
create_user(caller, payload) ==
  /\ nextUserId <= MaxUsers
  /\ IF ~has_permission(caller, "users.create")
       THEN /\ resp' = PermissionDenied("create_user", caller, None)
            /\ UNCHANGED <<users, nextUserId>>
       ELSE IF payload.role = "superadmin"
         THEN /\ resp' = Response("create_user", caller, None, 403, "superadmin_reserved")
              /\ UNCHANGED <<users, nextUserId>>
         ELSE LET found == RoleByName(payload.role)
                  role == IF found = None THEN RoleByName("member") ELSE found
              IN /\ users' = [u \in DOMAIN users \cup {nextUserId} |->
                               IF u = nextUserId
                                 THEN NewUser(role, payload.tenant_id)
                                 ELSE users[u]]
                 /\ nextUserId' = nextUserId + 1
                 /\ resp' = [Response("create_user", caller, nextUserId, 200, "")
                               EXCEPT !.role = Roles[role]]
  /\ UNCHANGED <<role_permissions, user_permissions, client_permissions, cache, now, sessions, last_inventory, tokens,
          active_connections, endpoints>>

\* the users row after update_user has applied the payload's fields
\* (a field that is None in the payload is left alone)
UpdatedUser(row, payload) ==
  LET found == IF payload.role = "" THEN None ELSE RoleByName(payload.role)
      r1 == IF found = None THEN row ELSE [row EXCEPT !.role_id = found]
      r2 == IF payload.is_active = "" THEN r1
            ELSE [r1 EXCEPT !.is_active = (payload.is_active = "true")]
  IN IF payload.assigned_client_id = None THEN r2
     ELSE [r2 EXCEPT !.assigned_client_id = payload.assigned_client_id]

\* PUT /users/{user_id}
update_user(caller, user_id, payload) ==
  /\ IF ~has_permission(caller, "users.edit")
       THEN /\ resp' = PermissionDenied("update_user", caller, user_id)
            /\ UNCHANGED users
       ELSE IF user_id \notin DOMAIN users
         THEN /\ resp' = Response("update_user", caller, user_id, 404, "user_not_found")
              /\ UNCHANGED users
         ELSE IF payload.role # "" /\ payload.role = "superadmin" /\ user_id # 1
           THEN /\ resp' = Response("update_user", caller, user_id, 403, "superadmin_reserved")
                /\ UNCHANGED users
           ELSE IF payload.role # "" /\ user_id = 1 /\ payload.role # "superadmin"
             THEN /\ resp' = Response("update_user", caller, user_id, 403, "cannot_change_user_1")
                  /\ UNCHANGED users
             ELSE /\ users' = [users EXCEPT ![user_id] = UpdatedUser(users[user_id], payload)]
                  /\ resp' = [Response("update_user", caller, user_id, 200, "")
                                EXCEPT !.role = Roles[users'[user_id].role_id]]
  /\ UNCHANGED <<nextUserId, role_permissions, user_permissions, client_permissions, cache, now, sessions, last_inventory, tokens,
          active_connections, endpoints>>

\* DELETE /users/{user_id}: the row goes, and with it the user's
\* client_permissions (ORM cascade) and user_permissions (secondary) rows
delete_user(caller, user_id) ==
  /\ IF ~has_permission(caller, "users.delete")
       THEN /\ resp' = PermissionDenied("delete_user", caller, user_id)
            /\ UNCHANGED <<users, user_permissions, client_permissions>>
       ELSE IF user_id \notin DOMAIN users
         THEN /\ resp' = Response("delete_user", caller, user_id, 404, "user_not_found")
              /\ UNCHANGED <<users, user_permissions, client_permissions>>
         ELSE /\ users' = [u \in DOMAIN users \ {user_id} |-> users[u]]
              /\ user_permissions' = {row \in user_permissions : row.user_id # user_id}
              /\ client_permissions' = {row \in client_permissions : row.user_id # user_id}
              /\ resp' = Response("delete_user", caller, user_id, 200, "")
  /\ UNCHANGED <<nextUserId, role_permissions, cache, now, sessions, last_inventory, tokens,
          active_connections, endpoints>>

(***************************************************************************)
(* /permissions                                                            *)
(***************************************************************************)
\* the loop of grant_permissions_to_role / grant_permissions_to_user: a name
\* that is found and not yet in the collection is appended
RECURSIVE GrantLoop(_, _)
GrantLoop(held, names) ==
  IF names = <<>> THEN held
  ELSE LET perm_name == Head(names)
       IN IF perm_name \notin Permissions THEN GrantLoop(held, Tail(names))
          ELSE IF perm_name \in held THEN GrantLoop(held, Tail(names))
          ELSE GrantLoop(held \cup {perm_name}, Tail(names))

\* a revoke loop that reports the names and leaves the collection as it was
RevokeLoopKeepsAll(held, names) == held

\* the loop of revoke_permissions_from_role / revoke_permissions_from_user: a
\* name that is found and in the collection is removed
RECURSIVE RevokeLoop(_, _)
RevokeLoop(held, names) ==
  IF names = <<>> THEN held
  ELSE LET perm_name == Head(names)
       IN IF perm_name \notin Permissions THEN RevokeLoop(held, Tail(names))
          ELSE IF perm_name \notin held THEN RevokeLoop(held, Tail(names))
          ELSE RevokeLoop(held \ {perm_name}, Tail(names))

\* the opening checks without the superadmin guard
RoleRequestUnguarded(op, caller, role_name, names) ==
  LET r == [Response(op, caller, None, 200, "") EXCEPT !.role = role_name, !.names = names]
  IN IF ~has_permission(caller, "permissions.manage")
       THEN [r EXCEPT !.status = 403, !.detail = "permission_denied"]
     ELSE IF RoleByName(role_name) = None
       THEN [r EXCEPT !.status = 404, !.detail = "role_not_found"]
     ELSE r

\* the outcome of the checks that open both role handlers:
\* the permission dependency, the superadmin guard, the role lookup
RoleRequest(op, caller, role_name, names) ==
  LET r == [Response(op, caller, None, 200, "") EXCEPT !.role = role_name, !.names = names]
  IN IF ~has_permission(caller, "permissions.manage")
       THEN [r EXCEPT !.status = 403, !.detail = "permission_denied"]
     ELSE IF role_name = "superadmin"
       THEN [r EXCEPT !.status = 403, !.detail = "cannot_modify_superadmin_role"]
     ELSE IF RoleByName(role_name) = None
       THEN [r EXCEPT !.status = 404, !.detail = "role_not_found"]
     ELSE r

\* POST /permissions/role/{role_name}/grant
grant_permissions_to_role(caller, role_name, permission_names) ==
  LET r == RoleRequest("grant_permissions_to_role", caller, role_name, permission_names)
      role == RoleByName(role_name)
  IN /\ IF r.status # 200
          THEN /\ resp' = r
               /\ UNCHANGED role_permissions
          ELSE LET held == GrantLoop(role_permissions[role], permission_names)
               IN /\ role_permissions' = [role_permissions EXCEPT ![role] = held]
                  /\ resp' = [r EXCEPT !.perms = held \ role_permissions[role],
                                       !.before = role_permissions[role]]
     /\ UNCHANGED <<users, nextUserId, user_permissions, client_permissions, cache, now, sessions, last_inventory, tokens,
          active_connections, endpoints>>

\* POST /permissions/role/{role_name}/revoke
revoke_permissions_from_role(caller, role_name, permission_names) ==
  LET r == RoleRequest("revoke_permissions_from_role", caller, role_name, permission_names)
      role == RoleByName(role_name)
      undo == /\ resp.op = "grant_permissions_to_role"
              /\ resp.status = 200
              /\ resp.role = role_name
              /\ resp.names = permission_names
  IN /\ IF r.status # 200
          THEN /\ resp' = r
               /\ UNCHANGED role_permissions
          ELSE LET held == RevokeLoop(role_permissions[role], permission_names)
               IN /\ role_permissions' = [role_permissions EXCEPT ![role] = held]
                  /\ resp' = [r EXCEPT !.perms = role_permissions[role] \ held,
                                       !.undo = undo,
                                       !.before = IF undo THEN resp.before ELSE {}]
     /\ UNCHANGED <<users, nextUserId, user_permissions, client_permissions, cache, now, sessions, last_inventory, tokens,
          active_connections, endpoints>>

\* user.user_permissions: the user's override rows
UserSpecific(user_id) ==
  {row.permission : row \in {x \in user_permissions : x.user_id = user_id}}

\* overrides that replace the role's permissions instead of adding to them
EffectiveOverridesReplace(user_id) ==
  IF UserSpecific(user_id) = {}
    THEN role_permissions[users[user_id].role_id]
    ELSE UserSpecific(user_id)

\* effective_permissions of get_user_effective_permissions:
\* set(role_permissions + user_specific)
EffectivePermissions(user_id) ==
  role_permissions[users[user_id].role_id] \cup UserSpecific(user_id)

\* GET /permissions/user/{user_id}/effective
get_user_effective_permissions(caller, user_id) ==
  LET r == Response("get_user_effective_permissions", caller, user_id, 200, "")
  IN /\ resp' = IF ~has_permission(caller, "permissions.manage")
                  THEN [r EXCEPT !.status = 403, !.detail = "permission_denied"]
                ELSE IF user_id \notin DOMAIN users
                  THEN [r EXCEPT !.status = 404, !.detail = "user_not_found"]
                ELSE [r EXCEPT !.role = RoleName(user_id),
                               !.perms = EffectivePermissions(user_id)]
     /\ UNCHANGED <<users, nextUserId, role_permissions, user_permissions,
                    client_permissions, cache, now, sessions, last_inventory, tokens,
          active_connections, endpoints>>

\* the outcome of the checks that open both user handlers:
\* the permission dependency, the user-1 guard, the user lookup
UserRequest(op, caller, user_id, names) ==
  LET r == [Response(op, caller, user_id, 200, "") EXCEPT !.names = names]
  IN IF ~has_permission(caller, "permissions.manage")
       THEN [r EXCEPT !.status = 403, !.detail = "permission_denied"]
     ELSE IF user_id = 1
       THEN [r EXCEPT !.status = 403, !.detail = "cannot_modify_user_1"]
     ELSE IF user_id \notin DOMAIN users
       THEN [r EXCEPT !.status = 404, !.detail = "user_not_found"]
     ELSE r

\* the user_permissions table with the rows of user_id replaced by held
WithUserSpecific(user_id, held) ==
  {row \in user_permissions : row.user_id # user_id}
    \cup {[user_id |-> user_id, permission |-> perm] : perm \in held}

\* POST /permissions/user/{user_id}/grant
grant_permissions_to_user(caller, user_id, permission_names) ==
  LET r == UserRequest("grant_permissions_to_user", caller, user_id, permission_names)
  IN /\ IF r.status # 200
          THEN /\ resp' = r
               /\ UNCHANGED user_permissions
          ELSE LET held == GrantLoop(UserSpecific(user_id), permission_names)
               IN /\ user_permissions' = WithUserSpecific(user_id, held)
                  /\ resp' = [r EXCEPT !.perms = held \ UserSpecific(user_id)]
     /\ UNCHANGED <<users, nextUserId, role_permissions, client_permissions, cache, now, sessions, last_inventory, tokens,
          active_connections, endpoints>>

\* POST /permissions/user/{user_id}/revoke
revoke_permissions_from_user(caller, user_id, permission_names) ==
  LET r == UserRequest("revoke_permissions_from_user", caller, user_id, permission_names)
  IN /\ IF r.status # 200
          THEN /\ resp' = r
               /\ UNCHANGED user_permissions
          ELSE LET held == RevokeLoop(UserSpecific(user_id), permission_names)
               IN /\ user_permissions' = WithUserSpecific(user_id, held)
                  /\ resp' = [r EXCEPT !.perms = UserSpecific(user_id) \ held]
     /\ UNCHANGED <<users, nextUserId, role_permissions, client_permissions, cache, now, sessions, last_inventory, tokens,
          active_connections, endpoints>>

\* a handler behind require_permission(permission): the dependency alone
require_permission(caller, permission) ==
  /\ resp' = [Response("require_permission", caller, None,
                       IF has_permission(caller, permission) THEN 200 ELSE 403,
                       IF has_permission(caller, permission) THEN "" ELSE "permission_denied")
                EXCEPT !.names = <<permission>>]
  /\ UNCHANGED <<users, nextUserId, role_permissions, user_permissions,
                 client_permissions, cache, now, sessions, last_inventory, tokens,
          active_connections, endpoints>>

(***************************************************************************)
(* /auth/login and /auth/refresh                                           *)
(***************************************************************************)
\* POST /auth/login for the username of user_id; password says whether the
\* password verifies.  The token replaces the one the user carried.
login(user_id, password) ==
  LET r == Response("login", None, user_id, 200, "")
  IN /\ IF user_id \notin DOMAIN users
          THEN /\ resp' = [r EXCEPT !.status = 401, !.detail = "incorrect_credentials"]
               /\ UNCHANGED tokens
        ELSE IF ~users[user_id].is_active
          THEN /\ resp' = [r EXCEPT !.status = 403, !.detail = "inactive"]
               /\ UNCHANGED tokens
        ELSE IF ~password
          THEN /\ resp' = [r EXCEPT !.status = 401, !.detail = "incorrect_credentials"]
               /\ UNCHANGED tokens
        ELSE /\ tokens' = (tokens \ TokensOf(user_id))
                            \cup {[user_id |-> user_id, role |-> RoleName(user_id),
                                   permissions |-> get_user_permissions(user_id),
                                   refreshed |-> FALSE]}
             /\ resp' = [r EXCEPT !.role = RoleName(user_id),
                                  !.perms = get_user_permissions(user_id)]
     /\ UNCHANGED <<users, nextUserId, role_permissions, user_permissions,
                    client_permissions, cache, now, sessions, last_inventory,
          active_connections, endpoints>>

\* POST /auth/refresh with a token: the claims are copied into a new token,
\* no row is read
refresh_token(token) ==
  /\ tokens' = (tokens \ {token}) \cup {[token EXCEPT !.refreshed = TRUE]}
  /\ resp' = [Response("refresh_token", token.user_id, None, 200, "")
                EXCEPT !.role = token.role]
  /\ UNCHANGED <<users, nextUserId, role_permissions, user_permissions,
                 client_permissions, cache, now, sessions, last_inventory,
          active_connections, endpoints>>

(***************************************************************************)
(* /clients and /users/{user_id}/client-permissions                        *)
(***************************************************************************)
\* the client ids of a user's UserClientPermission rows
AssignedClients(user_id) ==
  {row.client_id : row \in {x \in client_permissions : x.user_id = user_id}}

\* a variant that filters by the home tenant as well: the user's tenant_id
\* counts as visible
visible_clients_or_home(user_id) ==
  IF RoleName(user_id) = "superadmin"
    THEN Tenants
    ELSE Tenants \cap (AssignedClients(user_id) \cup {users[user_id].tenant_id})

\* the clients list_clients selects with the role loaded from the users row:
\* every tenant for the superadmin role, else the tenants joined to the
\* caller's UserClientPermission rows
visible_clients(user_id) ==
  IF RoleName(user_id) = "superadmin"
    THEN Tenants
    ELSE Tenants \cap AssignedClients(user_id)

\* GET /clients/
list_clients(caller) ==
  /\ resp' = IF caller \notin DOMAIN users
               THEN Response("list_clients", caller, None, 404, "user_not_found")
               ELSE [Response("list_clients", caller, None, 200, "")
                       EXCEPT !.role = RoleName(caller), !.ids = visible_clients(caller)]
  /\ UNCHANGED <<users, nextUserId, role_permissions, user_permissions,
                 client_permissions, cache, now, sessions, last_inventory, tokens,
          active_connections, endpoints>>

\* {p.client_id for p in payload.permissions}
RequestedClients(permissions) == {permissions[i].client_id : i \in 1..Len(permissions)}

\* a variant without the comparison of the requested clients with the
\* caller's own
AssignmentDenialSkipsClients(caller, target_user_role, permissions) ==
  IF target_user_role \in {"admin", "superadmin"}
    THEN "admins_only_assign_to_members"
  ELSE IF AssignedClients(caller) = {}
    THEN "no_assigned_clients"
  ELSE ""

\* the authorization checks of update_user_client_permissions for a caller
\* who is not superadmin: "" when they pass, else the 403 detail
AssignmentDenial(caller, target_user_role, permissions) ==
  IF target_user_role \in {"admin", "superadmin"}
    THEN "admins_only_assign_to_members"
  ELSE IF AssignedClients(caller) = {}
    THEN "no_assigned_clients"
  ELSE IF RequestedClients(permissions) \ AssignedClients(caller) # {}
    THEN "unauthorized_clients"
  ELSE ""

\* the commit fails when two new rows share (user_id, client_id) (unique
\* index ix_user_client_unique) or a client_id names no tenant (foreign key)
CommitFails(permissions) ==
  \/ \E i, j \in 1..Len(permissions) :
       i # j /\ permissions[i].client_id = permissions[j].client_id
  \/ RequestedClients(permissions) \ Tenants # {}

\* the rows after the delete and the adds
ReplacedRows(user_id, permissions) ==
  {row \in client_permissions : row.user_id # user_id}
    \cup {[user_id |-> user_id, client_id |-> permissions[i].client_id,
           permission |-> permissions[i].permission] : i \in 1..Len(permissions)}

\* POST /users/{user_id}/client-permissions
update_user_client_permissions(caller, user_id, permissions) ==
  LET r == [Response("update_user_client_permissions", caller, user_id, 200, "")
              EXCEPT !.requested = RequestedClients(permissions)]
  IN /\ IF ~has_permission(caller, "clients.assign")
          THEN /\ resp' = [r EXCEPT !.status = 403, !.detail = "permission_denied"]
               /\ UNCHANGED client_permissions
        ELSE IF caller \notin DOMAIN users
          THEN /\ resp' = [r EXCEPT !.status = 404, !.detail = "current_user_not_found"]
               /\ UNCHANGED client_permissions
        ELSE IF user_id \notin DOMAIN users
          THEN /\ resp' = [r EXCEPT !.status = 404, !.detail = "user_not_found"]
               /\ UNCHANGED client_permissions
        ELSE IF /\ RoleName(caller) # "superadmin"
                /\ AssignmentDenial(caller, RoleName(user_id), permissions) # ""
          THEN /\ resp' =
                    [r EXCEPT !.status = 403,
                              !.role = RoleName(user_id),
                              !.detail = AssignmentDenial(caller, RoleName(user_id), permissions),
                              !.ids = IF AssignmentDenial(caller, RoleName(user_id), permissions)
                                         = "unauthorized_clients"
                                        THEN RequestedClients(permissions) \ AssignedClients(caller)
                                        ELSE {}]
               /\ UNCHANGED client_permissions
        ELSE IF CommitFails(permissions)
          THEN /\ resp' = [r EXCEPT !.status = 500, !.role = RoleName(user_id),
                                    !.detail = "integrity_error"]
               /\ UNCHANGED client_permissions
        ELSE /\ client_permissions' = ReplacedRows(user_id, permissions)
             /\ resp' = [r EXCEPT !.role = RoleName(user_id),
                                   !.ids = RequestedClients(permissions)]
     /\ UNCHANGED <<users, nextUserId, role_permissions, user_permissions, cache, now, sessions, last_inventory, tokens,
          active_connections, endpoints>>

(***************************************************************************)
(* update_user_client_permissions statement by statement, for requests     *)
(* that overlap.  Each request has its own session and transaction         *)
(* (PostgreSQL, READ COMMITTED): client_permissions is the committed       *)
(* table; a session's deleted and inserted rows are visible to others only *)
(* as row locks until it commits.  The INSERTs of one flush are one step:  *)
(* a deadlock between two flushes ends one of them with an error, as the   *)
(* unique violation it would otherwise get.                                *)
(***************************************************************************)
\* the response of the checks before the DELETE: NoResponse when they pass
AssignmentRejection(caller, user_id, permissions) ==
  LET r == [Response("update_user_client_permissions", caller, user_id, 200, "")
              EXCEPT !.requested = RequestedClients(permissions)]
  IN IF ~has_permission(caller, "clients.assign")
       THEN [r EXCEPT !.status = 403, !.detail = "permission_denied"]
     ELSE IF caller \notin DOMAIN users
       THEN [r EXCEPT !.status = 404, !.detail = "current_user_not_found"]
     ELSE IF user_id \notin DOMAIN users
       THEN [r EXCEPT !.status = 404, !.detail = "user_not_found"]
     ELSE IF /\ RoleName(caller) # "superadmin"
             /\ AssignmentDenial(caller, RoleName(user_id), permissions) # ""
       THEN [r EXCEPT !.status = 403,
                      !.role = RoleName(user_id),
                      !.detail = AssignmentDenial(caller, RoleName(user_id), permissions),
                      !.ids = IF AssignmentDenial(caller, RoleName(user_id), permissions)
                                 = "unauthorized_clients"
                                THEN RequestedClients(permissions) \ AssignedClients(caller)
                                ELSE {}]
     ELSE NoResponse

\* the request arrives and get_db opens the first free session (which one is
\* of no consequence); then the permission dependency and the checks up to
\* the DELETE
AssignBegin(s, caller, user_id, permissions) ==
  /\ sessions[s].pc = "closed"
  /\ \A t \in Sessions : t < s => sessions[t].pc # "closed"
  /\ IF AssignmentRejection(caller, user_id, permissions) # NoResponse
       THEN /\ resp' = AssignmentRejection(caller, user_id, permissions)
            /\ UNCHANGED sessions
       ELSE /\ sessions' = [sessions EXCEPT ![s] =
                              [NoSession EXCEPT !.pc = "delete", !.caller = caller,
                                                !.user_id = user_id,
                                                !.permissions = permissions]]
            /\ UNCHANGED resp
  /\ UNCHANGED <<users, nextUserId, role_permissions, user_permissions,
                 client_permissions, cache, now, last_inventory, tokens,
          active_connections, endpoints>>

\* rows that a transaction still open has deleted: locked
LockedByOthers(s) ==
  UNION {sessions[t].deleted : t \in Sessions \ {s}} \cap client_permissions

\* delete(UserClientPermission).where(user_id == user_id): the statement sees
\* the target's rows committed now; it deletes them at once, or waits when
\* one of them is locked
AssignDeleteStart(s) ==
  LET seen == {row \in client_permissions : row.user_id = sessions[s].user_id}
  IN /\ sessions[s].pc = "delete"
     /\ sessions' = IF seen \cap LockedByOthers(s) = {}
                      THEN [sessions EXCEPT ![s].pc = "flush", ![s].deleted = seen]
                      ELSE [sessions EXCEPT ![s].pc = "deleting", ![s].snapshot = seen]
     /\ UNCHANGED <<users, nextUserId, role_permissions, user_permissions,
                    client_permissions, cache, now, resp, last_inventory, tokens,
          active_connections, endpoints>>

\* the waiting DELETE ends once no row it saw is locked; rows that a
\* transaction committed since has deleted are skipped
AssignDeleteEnd(s) ==
  /\ sessions[s].pc = "deleting"
  /\ sessions[s].snapshot \cap LockedByOthers(s) = {}
  /\ sessions' = [sessions EXCEPT ![s].pc = "flush",
                                  ![s].snapshot = {},
                                  ![s].deleted = sessions[s].snapshot \cap client_permissions]
  /\ UNCHANGED <<users, nextUserId, role_permissions, user_permissions,
                 client_permissions, cache, now, resp, last_inventory, tokens,
          active_connections, endpoints>>

\* the (user_id, client_id) of a row: the key of ix_user_client_unique
Pair(row) == <<row.user_id, row.client_id>>

\* the rows db.add has queued
NewRows(s) ==
  {[user_id |-> sessions[s].user_id,
    client_id |-> sessions[s].permissions[i].client_id,
    permission |-> sessions[s].permissions[i].permission] :
     i \in 1..Len(sessions[s].permissions)}

\* the committed rows this transaction has not deleted
LiveRows(s) == client_permissions \ sessions[s].deleted

\* an INSERT waits while a row with its key is being inserted or deleted by
\* a transaction that is still open
FlushWaits(s) ==
  \E row \in NewRows(s) :
    \/ \E t \in Sessions \ {s} : \E other \in sessions[t].inserted : Pair(other) = Pair(row)
    \/ \E other \in LockedByOthers(s) : Pair(other) = Pair(row)

\* a variant without ix_user_client_unique: only the foreign key is checked
FlushFailsNoUniqueIndex(s) ==
  \E i \in 1..Len(sessions[s].permissions) :
    sessions[s].permissions[i].client_id \notin Tenants

\* IntegrityError: two queued rows with one key, a queued row with the key
\* of a live row (ix_user_client_unique), or a client_id that names no tenant
FlushFails(s) ==
  \/ \E i, j \in 1..Len(sessions[s].permissions) :
       i # j /\ sessions[s].permissions[i].client_id = sessions[s].permissions[j].client_id
  \/ \E row \in NewRows(s) : \E live \in LiveRows(s) : Pair(live) = Pair(row)
  \/ \E i \in 1..Len(sessions[s].permissions) :
       sessions[s].permissions[i].client_id \notin Tenants

\* what the rollback of a failed flush leaves in the table
RolledBack(s) == client_permissions

\* db.commit() flushes the INSERTs; on IntegrityError the request ends with
\* 500 and the session's close rolls the transaction back
AssignFlush(s) ==
  /\ sessions[s].pc = "flush"
  /\ ~FlushWaits(s)
  /\ IF FlushFails(s)
       THEN /\ resp' = [Response("update_user_client_permissions", sessions[s].caller,
                                 sessions[s].user_id, 500, "integrity_error")
                          EXCEPT !.requested = RequestedClients(sessions[s].permissions),
                                 !.role = RoleName(sessions[s].user_id),
                                 !.before = sessions[s].deleted]
            /\ client_permissions' = RolledBack(s)
            /\ sessions' = [sessions EXCEPT ![s] = NoSession]
       ELSE /\ sessions' = [sessions EXCEPT ![s].pc = "commit",
                                            ![s].inserted = NewRows(s)]
            /\ UNCHANGED <<resp, client_permissions>>
  /\ UNCHANGED <<users, nextUserId, role_permissions, user_permissions, cache, now,
                 last_inventory, tokens,
          active_connections, endpoints>>

\* COMMIT, and the response with the target's rows
AssignCommit(s) ==
  /\ sessions[s].pc = "commit"
  /\ client_permissions' = (client_permissions \ sessions[s].deleted)
                              \cup sessions[s].inserted
  /\ resp' = [Response("update_user_client_permissions", sessions[s].caller,
                       sessions[s].user_id, 200, "")
                EXCEPT !.requested = RequestedClients(sessions[s].permissions),
                       !.role = RoleName(sessions[s].user_id),
                       !.ids = RequestedClients(sessions[s].permissions)]
  /\ sessions' = [sessions EXCEPT ![s] = NoSession]
  /\ UNCHANGED <<users, nextUserId, role_permissions, user_permissions, cache, now,
                 last_inventory, tokens,
          active_connections, endpoints>>

(***************************************************************************)
(* /clients/{client_id} and /metrics/resources/{client_id}                 *)
(***************************************************************************)
METRICS_CACHE_TTL_MINUTES == 30
\* the savings from which a finding is kept whatever its severity: $0.20 a
\* month, in cents
MIN_SAVINGS_CENTS == 20
\* the savings from which a finding is sent to the language model: $1.00
LLM_MIN_SAVINGS_CENTS == 100
\* the language model is given the first five high-value findings
LLM_MAX_FINDINGS == 5

\* GET /clients/{client_id}
get_client(caller, client_id) ==
  /\ resp' = IF client_id \notin Tenants
               THEN Response("get_client", caller, client_id, 404, "client_not_found")
               ELSE [Response("get_client", caller, client_id, 200, "")
                       EXCEPT !.ids = {client_id}]
  /\ UNCHANGED <<users, nextUserId, role_permissions, user_permissions,
                 client_permissions, cache, now, sessions, last_inventory, tokens,
          active_connections, endpoints>>

\* metadata_json["provider"] of the tenants: tenant 1 has none, tenant 2
\* names a provider that has no fetcher, the others GCP in capitals
ProviderSetting(client_id) ==
  CASE client_id = 1 -> ""
    [] client_id = 2 -> "Oracle"
    [] OTHER -> "GCP"

\* str.lower() on the settings in use
Lower(setting) ==
  CASE setting = "Oracle" -> "oracle"
    [] setting = "GCP" -> "gcp"
    [] OTHER -> setting

\* (meta.get("provider") or "aws").lower()
Provider(client_id) ==
  Lower(IF ProviderSetting(client_id) = "" THEN "aws" ELSE ProviderSetting(client_id))

\* a variant without the where clause: every row
CacheEntriesUnfiltered(client_id, provider) == 1..Len(cache)

\* the cache rows for a client and provider
CacheEntries(client_id, provider) ==
  {i \in 1..Len(cache) : cache[i].client_id = client_id /\ cache[i].provider = provider}

\* a variant that orders by fetched_at ascending
OldestEntries(client_id, provider) ==
  {i \in CacheEntries(client_id, provider) :
     \A j \in CacheEntries(client_id, provider) : cache[i].fetched_at <= cache[j].fetched_at}

\* order_by(desc(fetched_at)).limit(1): a row with the greatest fetched_at;
\* the database chooses among rows with equal fetched_at
LatestEntries(client_id, provider) ==
  {i \in CacheEntries(client_id, provider) :
     \A j \in CacheEntries(client_id, provider) : cache[j].fetched_at <= cache[i].fetched_at}

\* a variant that does not serve a result with an error entry from the cache
CacheValidWithoutError(entry) ==
  /\ entry.resources.error = ""
  /\ (now - entry.fetched_at) * 60 < METRICS_CACHE_TTL_MINUTES * 60

\* a variant of the age test that still accepts a row of exactly the TTL
CacheValidUpToTTL(entry) ==
  (now - entry.fetched_at) * 60 <= METRICS_CACHE_TTL_MINUTES * 60

\* cache_age.total_seconds() < METRICS_CACHE_TTL_MINUTES * 60, the clock and
\* fetched_at in minutes
CacheValid(entry) ==
  (now - entry.fetched_at) * 60 < METRICS_CACHE_TTL_MINUTES * 60

\* the structure for a provider without a fetcher: seven categories, each an
\* empty dict
EmptyStructure ==
  [categories |-> {"compute", "database", "storage", "networking", "security",
                   "analytics", "messaging"},
   lists |-> {}, error |-> ""]

\* a variant that rejects a provider without a fetcher
FetchKnownOnly(provider, fetched) ==
  IF provider \in {"aws", "azure", "gcp"} THEN fetched ELSE NoResources

\* step 4: the resources of the provider's fetcher, the empty structure for a
\* provider without one
Fetch(provider, fetched) ==
  IF provider \in {"aws", "azure", "gcp"} THEN fetched ELSE EmptyStructure

\* step 5: summary[category_type] = len(list) for every list of a category
Summary(resources) ==
  {<<triple[1], triple[2], triple[3]>> : triple \in resources.lists}

\* a variant that looks into the cache whatever force_refresh says
SkipsCacheNever(force_refresh) == FALSE

\* step 2 is skipped: if not force_refresh
SkipsCache(force_refresh) == force_refresh

\* step 3: the cache hit
CachedInventory(caller, client_id, force_refresh, entry) ==
  /\ resp' = [Response("get_resource_inventory", caller, client_id, 200, "")
                EXCEPT !.steps = <<"cache_read">>,
                       !.force_refresh = force_refresh,
                       !.provider = Provider(client_id),
                       !.cached = TRUE,
                       !.fetched_at = entry.fetched_at,
                       !.resources = entry.resources,
                       !.summary = entry.summary]
  /\ UNCHANGED cache

\* datetime.utcnow() when the new row is built
Stamped == now

\* a variant that keeps one row for a client and provider
StoredInPlace(rows, row) ==
  Append(SelectSeq(rows, LAMBDA old : \/ old.client_id # row.client_id
                                      \/ old.provider # row.provider),
         row)

\* db.add(new_cache) and db.commit(): a new row, nothing else is touched
Stored(rows, row) == Append(rows, row)

\* steps 4 to 7: the fetch, the summary, the new cache row and the response.
\* Requests that do not overlap read different clock values: a row is stored
\* only after the clock has moved on from the last one stored.
FreshInventory(caller, client_id, force_refresh, fetched) ==
  /\ Len(cache) < MaxCacheRows
  /\ \A i \in 1..Len(cache) : cache[i].fetched_at < now
  /\ cache' = Stored(cache, [client_id |-> client_id,
                             provider |-> Provider(client_id),
                             resources |-> Fetch(Provider(client_id), fetched),
                             summary |-> Summary(Fetch(Provider(client_id), fetched)),
                             fetched_at |-> Stamped])
  /\ resp' = [Response("get_resource_inventory", caller, client_id, 200, "")
                EXCEPT !.steps = (IF SkipsCache(force_refresh) THEN <<>> ELSE <<"cache_read">>)
                                   \o <<"fetch", "cache_write">>,
                       !.force_refresh = force_refresh,
                       !.provider = Provider(client_id),
                       !.cached = FALSE,
                       !.fetched_at = Stamped,
                       !.resources = Fetch(Provider(client_id), fetched),
                       !.summary = Summary(Fetch(Provider(client_id), fetched))]

\* GET /metrics/resources/{client_id}
get_resource_inventory(caller, client_id, force_refresh, fetched) ==
  /\ IF client_id \notin Tenants
       THEN /\ resp' = [Response("get_resource_inventory", caller, client_id, 404,
                                 "client_not_found")
                          EXCEPT !.force_refresh = force_refresh]
            /\ UNCHANGED cache
     ELSE IF SkipsCache(force_refresh) \/ LatestEntries(client_id, Provider(client_id)) = {}
       THEN FreshInventory(caller, client_id, force_refresh, fetched)
     ELSE \E i \in LatestEntries(client_id, Provider(client_id)) :
            IF CacheValid(cache[i])
              THEN CachedInventory(caller, client_id, force_refresh, cache[i])
              ELSE FreshInventory(caller, client_id, force_refresh, fetched)
  /\ UNCHANGED <<users, nextUserId, role_permissions, user_permissions,
                 client_permissions, now, sessions, tokens,
          active_connections, endpoints>>

(***************************************************************************)
(* get_resource_inventory await by await, for requests that overlap: the   *)
(* coroutine can be suspended at the cache query, at the fetch and at the  *)
(* commit.                                                                 *)
(***************************************************************************)
\* steps 1 to 3: the client lookup and the cache query; a hit is answered
\* at once, otherwise the request goes on to the fetch
InventoryBegin(s, caller, client_id, force_refresh) ==
  LET latest == IF client_id \in Tenants
                  THEN LatestEntries(client_id, Provider(client_id)) ELSE {}
      begun == [sessions EXCEPT ![s] =
                  [NoSession EXCEPT
                     !.pc = "fetch", !.caller = caller, !.client_id = client_id,
                     !.force_refresh = force_refresh,
                     !.steps = IF SkipsCache(force_refresh) THEN <<>>
                               ELSE <<"cache_read">>]]
  IN
  /\ sessions[s].pc = "closed"
  /\ \A t \in Sessions : t < s => sessions[t].pc # "closed"
  /\ IF client_id \notin Tenants
       THEN /\ resp' = [Response("get_resource_inventory", caller, client_id, 404,
                                 "client_not_found")
                          EXCEPT !.force_refresh = force_refresh]
            /\ UNCHANGED <<cache, sessions>>
     ELSE IF SkipsCache(force_refresh) \/ latest = {}
       THEN /\ sessions' = begun
            /\ UNCHANGED <<cache, resp>>
     ELSE \E i \in latest :
            IF CacheValid(cache[i])
              THEN /\ CachedInventory(caller, client_id, force_refresh, cache[i])
                   /\ UNCHANGED sessions
              ELSE /\ sessions' = begun
                   /\ UNCHANGED <<cache, resp>>
  /\ UNCHANGED <<users, nextUserId, role_permissions, user_permissions,
                 client_permissions, now, last_inventory, tokens,
          active_connections, endpoints>>

\* step 4: the provider's fetcher returns
InventoryFetch(s, fetched) ==
  /\ sessions[s].pc = "fetch"
  /\ sessions' = [sessions EXCEPT
                    ![s].pc = "write",
                    ![s].resources = Fetch(Provider(sessions[s].client_id), fetched),
                    ![s].steps = Append(sessions[s].steps, "fetch")]
  /\ UNCHANGED <<users, nextUserId, role_permissions, user_permissions,
                 client_permissions, cache, now, resp, last_inventory, tokens,
          active_connections, endpoints>>

\* steps 5 and 6: the summary, the new row stamped with the clock, and the
\* commit.  Two clock readings differ.
InventoryWrite(s) ==
  /\ sessions[s].pc = "write"
  /\ Len(cache) < MaxCacheRows
  /\ \A i \in 1..Len(cache) : cache[i].fetched_at < now
  /\ cache' = Stored(cache, [client_id |-> sessions[s].client_id,
                             provider |-> Provider(sessions[s].client_id),
                             resources |-> sessions[s].resources,
                             summary |-> Summary(sessions[s].resources),
                             fetched_at |-> Stamped])
  /\ sessions' = [sessions EXCEPT
                    ![s].pc = "respond",
                    ![s].fetched_at = Stamped,
                    ![s].steps = Append(sessions[s].steps, "cache_write")]
  /\ UNCHANGED <<users, nextUserId, role_permissions, user_permissions,
                 client_permissions, now, resp, last_inventory, tokens,
          active_connections, endpoints>>

\* a variant that answers as soon as the fetch has returned
RespondsAfterFetch(s) == sessions[s].pc \in {"write", "respond"}

\* the return statement follows the commit
RespondsAfterCommit(s) == sessions[s].pc = "respond"

\* step 7: the response
InventoryRespond(s) ==
  /\ RespondsAfterCommit(s)
  /\ resp' = [Response("get_resource_inventory", sessions[s].caller,
                       sessions[s].client_id, 200, "")
                EXCEPT !.steps = sessions[s].steps,
                       !.force_refresh = sessions[s].force_refresh,
                       !.provider = Provider(sessions[s].client_id),
                       !.cached = FALSE,
                       !.fetched_at = sessions[s].fetched_at,
                       !.resources = sessions[s].resources,
                       !.summary = Summary(sessions[s].resources)]
  /\ sessions' = [sessions EXCEPT ![s] = NoSession]
  /\ UNCHANGED <<users, nextUserId, role_permissions, user_permissions,
                 client_permissions, cache, now, last_inventory, tokens,
          active_connections, endpoints>>

\* datetime.utcnow() advances
Tick ==
  /\ now + TickMinutes <= MaxNow
  /\ now' = now + TickMinutes
  /\ UNCHANGED <<users, nextUserId, role_permissions, user_permissions,
                 client_permissions, cache, resp, sessions, last_inventory, tokens,
          active_connections, endpoints>>

(***************************************************************************)
(* fetch_aws_resources                                                     *)
(***************************************************************************)
\* the number of entries a sub-service block leaves in its list.  The ECS
\* block calls list_services for every cluster inside its loop and appends
\* cluster by cluster, so a call that raises leaves the clusters handled
\* before it; the other blocks make their call before they append or assign.
Collected(service, outcome) ==
  IF outcome.failed_after = -1 THEN outcome.listed
  ELSE IF service = "ecs" THEN outcome.failed_after
  ELSE 0

\* the dict returned when every block has run
Inventory(outcomes) ==
  [categories |-> {"compute", "database", "storage", "networking", "security",
                   "messaging", "api"},
   lists |-> {<<Category(service), service, Collected(service, outcomes[service])>> :
                service \in SubServices},
   error |-> ""]

\* the dict returned without credentials: every list empty
WithoutCredentials ==
  [categories |-> {"compute", "database", "storage", "networking", "security",
                   "messaging", "api"},
   lists |-> {<<Category(service), service, 0>> : service \in SubServices},
   error |-> "Missing AWS credentials"]

\* the dict returned by the outer except: every list empty
AfterException ==
  [categories |-> {"compute", "database", "storage", "networking", "security"},
   lists |-> {<<Category(service), service, 0>> : service \in SubServices},
   error |-> "str(e)"]

\* fetch_aws_resources(client_id, credentials): credentials says whether the
\* access key and the secret key are there, clients whether boto3 builds the
\* session and the clients, outcomes what each sub-service does.  status 200
\* stands for a normal return; detail is the "error" entry of the dict.
fetch_aws_resources(client_id, credentials, clients, outcomes) ==
  /\ resp' = [Response("fetch_aws_resources", None, client_id, 200,
                       IF ~credentials THEN WithoutCredentials.error
                       ELSE IF ~clients THEN AfterException.error
                       ELSE "")
                EXCEPT !.credentials = credentials,
                       !.clients = clients,
                       !.outcomes = outcomes,
                       !.resources = IF ~credentials THEN WithoutCredentials
                                     ELSE IF ~clients THEN AfterException
                                     ELSE Inventory(outcomes)]
  /\ UNCHANGED <<users, nextUserId, role_permissions, user_permissions,
                 client_permissions, cache, now, sessions, last_inventory, tokens,
          active_connections, endpoints>>

(***************************************************************************)
(* get_optimization_recommendations                                        *)
(***************************************************************************)
Severities == {"critical", "high", "medium", "low"}

\* the recommendation that stands for an exception of the fetch or the
\* analysis; it has no "id"
ErrorRecommendation ==
  [id |-> None, category |-> "error", severity |-> "high", estimated_savings |-> 0,
   ai_enhanced |-> FALSE]

\* a variant of the filter without the severity clause
KeepBySavingsOnly(rec) == rec.estimated_savings >= MIN_SAVINGS_CENTS

\* step 4: the condition of the filter
Keep(rec) ==
  \/ rec.estimated_savings >= MIN_SAVINGS_CENTS
  \/ rec.severity \in {"critical", "high"}

\* a variant that ranks low before medium
severity_order_low_first(severity) ==
  CASE severity = "critical" -> 0
    [] severity = "high" -> 1
    [] severity = "low" -> 2
    [] OTHER -> 3

\* step 5: severity_order.get(severity, 3)
severity_order(severity) ==
  CASE severity = "critical" -> 0
    [] severity = "high" -> 1
    [] severity = "medium" -> 2
    [] OTHER -> 3

\* list.sort(key=...) is stable: the elements of each key in their order
Sorted(recommendations) ==
  LET OfRank(k) == SelectSeq(recommendations,
                             LAMBDA rec : severity_order(rec.severity) = k)
  IN  OfRank(0) \o OfRank(1) \o OfRank(2) \o OfRank(3)

\* the findings that enhance_recommendations_with_llm puts in its prompt
HighValue(recommendations) ==
  LET high_value_recs ==
        SelectSeq(recommendations,
                  LAMBDA rec : \/ rec.estimated_savings >= LLM_MIN_SAVINGS_CENTS
                               \/ rec.severity \in {"critical", "high"})
  IN  {high_value_recs[i].id :
         i \in 1..(IF Len(high_value_recs) < LLM_MAX_FINDINGS
                     THEN Len(high_value_recs) ELSE LLM_MAX_FINDINGS)}

\* what the language model does in a call of enhance_recommendations_with_llm:
\* outcome is "import_error" (no openai package), "no_api_key", "timeout"
\* (no answer within 10 seconds), "malformed" (json.loads or the reading of
\* the answer raises), "api_error" (any other exception), or "answered"; ids
\* are the findings for which an answer, fresh or taken from llm_cache, has an
\* insight
NoLlm == [outcome |-> "no_api_key", ids |-> {}]

\* a variant in which a timeout is noticed only after the insights were applied
UnansweredExceptTimeout(llm) == llm.outcome \notin {"answered", "timeout"}

\* the calls that return before the loop that applies the insights
Unanswered(llm) == llm.outcome # "answered"

\* for rec in recommendations: if rec["id"] in insights: ... - the loop
\* raises at the first finding without an "id" and leaves the rest as it is
Annotated(recommendations, ids) ==
  LET missing == {i \in 1..Len(recommendations) : recommendations[i].id = None}
      stop == IF missing = {} THEN Len(recommendations) + 1
              ELSE CHOOSE i \in missing : \A k \in missing : i <= k
  IN  [i \in 1..Len(recommendations) |->
         IF i < stop /\ recommendations[i].id \in ids
           THEN [recommendations[i] EXCEPT !.ai_enhanced = TRUE]
           ELSE recommendations[i]]

\* enhance_recommendations_with_llm: every except clause returns the list
enhance_recommendations_with_llm(recommendations, llm) ==
  IF Unanswered(llm) \/ HighValue(recommendations) = {}
    THEN recommendations
  ELSE Annotated(recommendations, llm.ids)

\* GET /metrics/recommendations/{client_id}: outcome says whether the fetch
\* and the analysis of step 2 return ("ok") or which of them raises, findings
\* is what the analysis emits.  `resources` is assigned only by a fetch that
\* returned; step 6 reads it, which fails when it was never assigned.
get_optimization_recommendations(caller, client_id, outcome, findings, llm) ==
  LET provider == Provider(client_id)
      known == provider \in {"aws", "azure", "gcp"}
      recommendations ==
        IF ~known THEN <<>>
        ELSE IF outcome = "ok" THEN findings
        ELSE <<ErrorRecommendation>>
      assigned == known /\ outcome # "fetch_raised"
      answer == [Response("get_optimization_recommendations", caller, client_id, 200, "")
                   EXCEPT !.provider = provider, !.outcome = outcome, !.llm = llm]
  IN
  /\ resp' =
       IF client_id \notin Tenants
         THEN [answer EXCEPT !.status = 404, !.detail = "client_not_found",
                             !.provider = ""]
       ELSE IF ~assigned
         THEN [answer EXCEPT !.status = 500, !.detail = "UnboundLocalError",
                             !.found = recommendations]
       ELSE [answer EXCEPT
               !.found = recommendations,
               !.recommendations =
                 enhance_recommendations_with_llm(
                   Sorted(SelectSeq(recommendations, Keep)), llm)]
  /\ UNCHANGED <<users, nextUserId, role_permissions, user_permissions,
                 client_permissions, cache, now, sessions, last_inventory, tokens,
          active_connections, endpoints>>

(***************************************************************************)
(* Request bodies.                                                         *)
(***************************************************************************)
RegisterRequests ==
  [role : RoleInputs, tenant_id : Tenants, clash : {"none", "username", "email"}]

UserCreates == [role : RoleInputs, tenant_id : Tenants]

\* UserUpdate bodies that set the role, is_active, or nothing
UserUpdates ==
  [role : RoleInputs \cup {""}, is_active : {""}, assigned_client_id : {None}]
    \cup [role : {""}, is_active : {"true", "false"}, assigned_client_id : {None}]

(***************************************************************************)
(* /chat/ws/{client_id}: the ConnectionManager and the endpoint coroutines  *)
(***************************************************************************)
Websockets == 1..MaxSockets

\* a websocket_endpoint coroutine: pc is the await it is suspended at.  While
\* its broadcast is suspended in send_json: set is the identity of the set
\* object the for loop iterates, si_used the size the iterator expects,
\* initial the members when the loop began, connection the member being
\* sent to, delivered the members send_json returned for, disconnected the
\* ones it raised for.
NoEndpoint ==
  [client_id |-> None, pc |-> "new", set |-> None, si_used |-> 0, initial |-> {},
   connection |-> None, delivered |-> {}, disconnected |-> {}]

\* ConnectionManager.__init__: no key
NoConnections == [client_id \in {} |-> [id |-> None, connections |-> {}]]

(***************************************************************************)
(* The store after the bootstrap procedure: the seeded roles and            *)
(* permissions, and the superadmin as user 1 in the default tenant.         *)
(***************************************************************************)
Init ==
  /\ users = (1 :> NewUser(RoleByName("superadmin"), 1))
  /\ nextUserId = 2
  /\ role_permissions = SeedRolePermissions
  /\ user_permissions = {}
  /\ client_permissions = {}
  /\ cache = <<>>
  /\ now = 0
  /\ resp = NoResponse
  /\ sessions = [s \in Sessions |-> NoSession]
  /\ last_inventory = [c \in Tenants |-> NoCall]
  /\ tokens = {}
  /\ active_connections = NoConnections
  /\ endpoints = [websocket \in Websockets |-> NoEndpoint]

Register == \E payload \in RegisterRequests : register(payload)

CreateUser == \E caller \in Callers, payload \in UserCreates : create_user(caller, payload)

UpdateUser ==
  \E caller \in Callers, user_id \in UserIds, payload \in UserUpdates :
    update_user(caller, user_id, payload)

DeleteUser == \E caller \in Callers, user_id \in UserIds : delete_user(caller, user_id)

\* user management
Next == Register \/ CreateUser \/ UpdateUser \/ DeleteUser

Spec == Init /\ [][Next]_vars

(***************************************************************************)
(* Permission management over a populated store.                           *)
(***************************************************************************)
\* the roles of a populated store: user 1 is the superadmin, and register
\* was called for an admin (user 2) and two members (users 3 and 4)
PopulatedRoles == <<"superadmin", "admin", "member", "member">>

\* the home tenants the users were registered with
PopulatedTenant(u) == IF u = 2 THEN MaxClients ELSE 1

\* update_user has set the assigned_client_id of user 3
PopulatedAssignedClient(u) == IF u = 3 THEN 1 ELSE None

\* the store after those register and update_user calls
InitPopulated ==
  /\ users = [u \in 1..Len(PopulatedRoles) |->
                [NewUser(RoleByName(PopulatedRoles[u]), PopulatedTenant(u))
                   EXCEPT !.assigned_client_id = PopulatedAssignedClient(u)]]
  /\ nextUserId = Len(PopulatedRoles) + 1
  /\ role_permissions = SeedRolePermissions
  /\ user_permissions = {}
  /\ client_permissions = {}
  /\ cache = <<>>
  /\ now = 0
  /\ resp = NoResponse
  /\ sessions = [s \in Sessions |-> NoSession]
  /\ last_inventory = [c \in Tenants |-> NoCall]
  /\ tokens = {}
  /\ active_connections = NoConnections
  /\ endpoints = [websocket \in Websockets |-> NoEndpoint]

\* permission_names of a grant or revoke request
PermissionLists ==
  {<<"permissions.manage">>, <<"metrics.view">>, <<"reports.view">>,
   <<"permissions.manage", "permissions.manage">>}

GrantPermissionsToRole ==
  \E caller \in Callers, role_name \in RoleInputs, names \in PermissionLists :
    grant_permissions_to_role(caller, role_name, names)

RevokePermissionsFromRole ==
  \E caller \in Callers, role_name \in RoleInputs, names \in PermissionLists :
    revoke_permissions_from_role(caller, role_name, names)

RequirePermission ==
  \E caller \in Callers : require_permission(caller, "permissions.manage")

\* role permission management
NextRoles == GrantPermissionsToRole \/ RevokePermissionsFromRole \/ RequirePermission

SpecRoles == InitPopulated /\ [][NextRoles]_vars

GrantPermissionsToUser ==
  \E caller \in Callers, user_id \in UserIds, names \in PermissionLists :
    grant_permissions_to_user(caller, user_id, names)

RevokePermissionsFromUser ==
  \E caller \in Callers, user_id \in UserIds, names \in PermissionLists :
    revoke_permissions_from_user(caller, user_id, names)

GetUserEffectivePermissions ==
  \E caller \in Callers, user_id \in UserIds :
    get_user_effective_permissions(caller, user_id)

\* the member role gains or loses the permission it was seeded with
GrantViewToMember ==
  \E caller \in Callers : grant_permissions_to_role(caller, "member", <<"metrics.view">>)

RevokeViewFromMember ==
  \E caller \in Callers : revoke_permissions_from_role(caller, "member", <<"metrics.view">>)

\* user permission overrides, the gate and the effective-permission query,
\* one request at a time
NextOverrides ==
  \/ Idle /\ GrantPermissionsToUser
  \/ Idle /\ RevokePermissionsFromUser
  \/ Idle /\ GetUserEffectivePermissions
  \/ Idle /\ RequirePermission
  \/ Idle /\ GrantViewToMember
  \/ Idle /\ RevokeViewFromMember
  \/ Deliver

SpecOverrides == InitPopulated /\ [][NextOverrides]_vars

(***************************************************************************)
(* Client assignment over a populated store.                               *)
(***************************************************************************)
\* a client id that names no tenant
NoSuchClient == MaxClients + 1

\* the list that assigns the clients of ids in ascending order
RECURSIVE Ascending(_)
Ascending(ids) ==
  IF ids = {} THEN <<>>
  ELSE LET least == CHOOSE c \in ids : \A d \in ids : c <= d
       IN <<[client_id |-> least, permission |-> "editor"]>> \o Ascending(ids \ {least})

\* payload.permissions: a list of distinct tenants, a list that names a
\* tenant twice, a list that names no tenant
ClientPermissionLists ==
  {Ascending(ids) : ids \in SUBSET Tenants}
    \cup {Ascending({c}) \o Ascending({c}) : c \in Tenants}
    \cup {Ascending({NoSuchClient})}

ListClients == \E caller \in Callers : list_clients(caller)

UpdateUserClientPermissions ==
  \E caller \in Callers, user_id \in UserIds, permissions \in ClientPermissionLists :
    update_user_client_permissions(caller, user_id, permissions)

\* the member role gains or loses clients.assign
GrantAssignToMember ==
  \E caller \in Callers : grant_permissions_to_role(caller, "member", <<"clients.assign">>)

RevokeAssignFromMember ==
  \E caller \in Callers : revoke_permissions_from_role(caller, "member", <<"clients.assign">>)

\* client assignment and the client list, one request at a time
NextClients ==
  \/ Idle /\ ListClients
  \/ Idle /\ UpdateUserClientPermissions
  \/ Idle /\ GrantAssignToMember
  \/ Idle /\ RevokeAssignFromMember
  \/ Deliver

SpecClients == InitPopulated /\ [][NextClients]_vars

(***************************************************************************)
(* The client record and the resource inventory over a populated store.    *)
(***************************************************************************)
\* what a provider's fetcher may return: one instance and no bucket, two
\* instances and a bucket, or the result for missing credentials
Snapshots ==
  {[categories |-> {"compute", "storage"},
    lists |-> {<<"compute", "ec2", 1>>, <<"storage", "s3", 0>>}, error |-> ""],
   [categories |-> {"compute", "storage"},
    lists |-> {<<"compute", "ec2", 2>>, <<"storage", "s3", 1>>}, error |-> ""],
   WithoutCredentials}

\* a client id in a request path
ClientIds == Tenants \cup {NoSuchClient}

GetClient ==
  \E caller \in Callers, client_id \in ClientIds : get_client(caller, client_id)

GetResourceInventory ==
  \E caller \in Callers, client_id \in ClientIds, force_refresh \in BOOLEAN,
     fetched \in Snapshots :
    /\ get_resource_inventory(caller, client_id, force_refresh, fetched)
    /\ UNCHANGED last_inventory

\* the superadmin gives client 1 to the admin, or takes the admin's clients
AssignToAdmin ==
  \E ids \in {{}, {1}} : update_user_client_permissions(1, 2, Ascending(ids))

\* the client record and the inventory, one request at a time
NextInventory ==
  \/ Idle /\ GetClient
  \/ Idle /\ GetResourceInventory
  \/ Idle /\ AssignToAdmin
  \/ Idle /\ Tick
  \/ Deliver

SpecInventory == InitPopulated /\ [][NextInventory]_vars

(***************************************************************************)
(* The inventory cache by itself, with the last answer per client kept.    *)
(***************************************************************************)
\* a get_resource_inventory call; last_inventory keeps the time and the
\* payload of the answer to a force_refresh=false call, and forgets it at a
\* force_refresh=true call
InventoryCall ==
  \E client_id \in ClientIds, force_refresh \in BOOLEAN, fetched \in Snapshots :
    /\ get_resource_inventory(1, client_id, force_refresh, fetched)
    /\ last_inventory' =
         IF client_id \notin Tenants THEN last_inventory
         ELSE [last_inventory EXCEPT ![client_id] =
                 IF force_refresh THEN NoCall
                 ELSE [at |-> now, fetched_at |-> resp'.fetched_at,
                       resources |-> resp'.resources, summary |-> resp'.summary,
                       repeat |-> /\ last_inventory[client_id] # NoCall
                                  /\ now - last_inventory[client_id].fetched_at
                                       < METRICS_CACHE_TTL_MINUTES]]

NextCache ==
  \/ Idle /\ InventoryCall
  \/ Idle /\ Tick
  \/ Deliver

SpecCache == InitPopulated /\ [][NextCache]_vars

(***************************************************************************)
(* Overlapping client assignment requests.                                 *)
(***************************************************************************)
\* the payload's rows with the permission level changed
WithLevel(permissions, level) ==
  [i \in 1..Len(permissions) |-> [permissions[i] EXCEPT !.permission = level]]

\* payload.permissions of overlapping requests: no client, client 1 at one of
\* two levels, the last client, client 1 twice, a client that does not exist
OverlappingLists ==
  {Ascending({}), Ascending({1}), WithLevel(Ascending({1}), "viewer"),
   Ascending({MaxClients}),
   Ascending({1}) \o WithLevel(Ascending({1}), "viewer"),
   Ascending({NoSuchClient})}

\* requests of the superadmin and of the admin for the rows of member 3
OverlapAssignBegin ==
  \E s \in Sessions, caller \in {1, 2}, permissions \in OverlappingLists :
    AssignBegin(s, caller, 3, permissions)

OverlapAssignDeleteStart == \E s \in Sessions : AssignDeleteStart(s)

OverlapAssignDeleteEnd == \E s \in Sessions : AssignDeleteEnd(s)

OverlapAssignFlush == \E s \in Sessions : AssignFlush(s)

OverlapAssignCommit == \E s \in Sessions : AssignCommit(s)

\* the statements of the requests in flight interleave; responses leave one
\* at a time
NextOverlap ==
  \/ Idle /\ OverlapAssignBegin
  \/ Idle /\ OverlapAssignDeleteStart
  \/ Idle /\ OverlapAssignDeleteEnd
  \/ Idle /\ OverlapAssignFlush
  \/ Idle /\ OverlapAssignCommit
  \/ Deliver

SpecOverlap == InitPopulated /\ [][NextOverlap]_vars

(***************************************************************************)
(* The AWS fetcher on every combination of sub-service outcomes.           *)
(***************************************************************************)
\* a sub-service lists up to MaxItems resources; its first call raises, or,
\* for ECS, a later one
Outcomes(service) ==
  {[listed |-> n, failed_after |-> -1] : n \in 0..MaxItems}
    \cup UNION {{[listed |-> n, failed_after |-> k] :
                   k \in IF service = "ecs" /\ n > 0 THEN 0..(n - 1) ELSE {0}} :
                 n \in 0..MaxItems}

\* what the sub-services do: ECS as clusters says, the others as others
SubServiceOutcomes(others, clusters) ==
  [service \in SubServices |->
     IF service = "ecs" THEN clusters ELSE others[service]]

FetchAwsResources ==
  \E client_id \in Tenants, credentials \in BOOLEAN, clients \in BOOLEAN :
    \/ /\ ~credentials \/ ~clients
       /\ fetch_aws_resources(client_id, credentials, clients, NoOutcomes)
    \/ /\ credentials /\ clients
       /\ \E others \in [SubServices \ {"ecs"} -> Outcomes("ec2")],
             clusters \in Outcomes("ecs") :
            fetch_aws_resources(client_id, credentials, clients,
                                SubServiceOutcomes(others, clusters))

NextFetcher ==
  \/ Idle /\ FetchAwsResources
  \/ Deliver

SpecFetcher == InitPopulated /\ [][NextFetcher]_vars

(***************************************************************************)
(* Recommendations for every list of findings an analysis can emit.        *)
(***************************************************************************)
\* monthly savings in cents: below the filter's threshold and at it
Savings == {10, MIN_SAVINGS_CENTS}

\* the analysis numbers its findings rec_1, rec_2, ... as it emits them;
\* kinds gives the severity and the savings of each
Emitted(kinds) ==
  [i \in 1..Len(kinds) |->
     [id |-> i, category |-> "cost", severity |-> kinds[i][1],
      estimated_savings |-> kinds[i][2], ai_enhanced |-> FALSE]]

\* the language model has no key, or answers for the findings of its prompt
PromptAnswers(findings) ==
  {NoLlm, [outcome |-> "answered",
           ids |-> HighValue(Sorted(SelectSeq(findings, Keep)))]}

GetOptimizationRecommendations ==
  \E client_id \in ClientIds, outcome \in {"ok", "fetch_raised", "analysis_raised"} :
    LET analysed == /\ client_id \in Tenants
                    /\ Provider(client_id) \in {"aws", "azure", "gcp"}
    IN  /\ ~analysed => outcome = "ok"
        /\ \E n \in IF analysed /\ outcome = "ok" THEN 0..MaxFindings ELSE {0} :
             \E kinds \in [1..n -> Severities \X Savings] :
               \E llm \in IF analysed /\ outcome # "fetch_raised"
                             THEN PromptAnswers(Emitted(kinds)) ELSE {NoLlm} :
                 get_optimization_recommendations(1, client_id, outcome,
                                                  Emitted(kinds), llm)

NextRecommendations ==
  \/ Idle /\ GetOptimizationRecommendations
  \/ Deliver

SpecRecommendations == InitPopulated /\ [][NextRecommendations]_vars

(***************************************************************************)
(* The enrichment step under every outcome of the language model.          *)
(***************************************************************************)
\* a request that fails may still have an answer under way (ids), which the
\* code never reads
LlmOutcomes ==
  {[outcome |-> o, ids |-> ids] :
     o \in {"import_error", "no_api_key", "timeout", "malformed", "api_error"},
     ids \in {{}, 1..MaxFindings}}
    \cup {[outcome |-> "answered", ids |-> ids] : ids \in SUBSET (1..MaxFindings)}

\* tenant 1 is on aws; the fetch returns, the analysis returns or raises;
\* findings of and below high value, by severity and by savings
GetEnrichedRecommendations ==
  \E outcome \in {"ok", "analysis_raised"}, llm \in LlmOutcomes :
    \E n \in IF outcome = "ok" THEN 0..MaxFindings ELSE {0} :
      \E kinds \in [1..n -> {"high", "low"}
                              \X {MIN_SAVINGS_CENTS, LLM_MIN_SAVINGS_CENTS}] :
        get_optimization_recommendations(1, 1, outcome, Emitted(kinds), llm)

NextEnrichment ==
  \/ Idle /\ GetEnrichedRecommendations
  \/ Deliver

SpecEnrichment == InitPopulated /\ [][NextEnrichment]_vars

(***************************************************************************)
(* Token holders and the administration that changes what they may do.     *)
(***************************************************************************)
\* the admin (user 2) and a member (user 3) log in
Login ==
  \E user_id \in {2, 3}, password \in BOOLEAN : login(user_id, password)

RefreshToken ==
  \E token \in tokens : refresh_token(token)

\* a request behind a permission gate, made with a token
GatedRequest ==
  \E token \in tokens, permission \in {"metrics.view", "users.edit"} :
    require_permission(token.user_id, permission)

\* the superadmin takes metrics.view from a role or gives it back
ChangeRole ==
  \E role_name \in {"admin", "member"} :
    \/ revoke_permissions_from_role(1, role_name, <<"metrics.view">>)
    \/ grant_permissions_to_role(1, role_name, <<"metrics.view">>)

\* the superadmin changes the role of a token holder, or deactivates or
\* reactivates the user
ChangeUser ==
  \E user_id \in {2, 3},
     payload \in [role : {"admin", "member"}, is_active : {""},
                  assigned_client_id : {None}]
                   \cup [role : {""}, is_active : {"true", "false"},
                         assigned_client_id : {None}] :
    update_user(1, user_id, payload)

NextTokens ==
  \/ Idle /\ Login
  \/ Idle /\ RefreshToken
  \/ Idle /\ GatedRequest
  \/ Idle /\ ChangeRole
  \/ Idle /\ ChangeUser
  \/ Deliver

SpecTokens == InitPopulated /\ [][NextTokens]_vars

(***************************************************************************)
(* get_resource_inventory requests that overlap.                           *)
(***************************************************************************)
\* requests for tenant 1, and for a client that does not exist
ConcurrentInventoryBegin ==
  \E s \in Sessions, client_id \in {1, NoSuchClient}, force_refresh \in BOOLEAN :
    InventoryBegin(s, 1, client_id, force_refresh)

ConcurrentInventoryFetch ==
  \E s \in Sessions, fetched \in Snapshots : InventoryFetch(s, fetched)

ConcurrentInventoryWrite == \E s \in Sessions : InventoryWrite(s)

ConcurrentInventoryRespond == \E s \in Sessions : InventoryRespond(s)

NextConcurrent ==
  \/ Idle /\ ConcurrentInventoryBegin
  \/ Idle /\ ConcurrentInventoryFetch
  \/ Idle /\ ConcurrentInventoryWrite
  \/ Idle /\ ConcurrentInventoryRespond
  \/ Idle /\ Tick
  \/ Deliver

SpecConcurrent == InitPopulated /\ [][NextConcurrent]_vars

(***************************************************************************)
(* The admin shares client 1 with member 3 while the superadmin changes    *)
(* the admin's own assignments.                                            *)
(***************************************************************************)
RaceAssignBegin ==
  \E s \in Sessions, permissions \in {Ascending({}), Ascending({1})} :
    \/ AssignBegin(s, 1, 2, permissions)
    \/ AssignBegin(s, 2, 3, permissions)

NextRace ==
  \/ Idle /\ RaceAssignBegin
  \/ Idle /\ OverlapAssignDeleteStart
  \/ Idle /\ OverlapAssignDeleteEnd
  \/ Idle /\ OverlapAssignFlush
  \/ Idle /\ OverlapAssignCommit
  \/ Deliver

SpecRace == InitPopulated /\ [][NextRace]_vars

(***************************************************************************)
(* The chat websocket: connect, disconnect and broadcast of the            *)
(* ConnectionManager, interleaved at the awaits of the endpoint            *)
(* coroutines.  active_connections[client_id] is a set object: id tells    *)
(* one object from a later one under the same key (the websocket whose     *)
(* connect created it), connections are its members.                       *)
(***************************************************************************)
\* active_connections after manager.connect(websocket, client_id)
connect(websocket, client_id) ==
  IF client_id \in DOMAIN active_connections
    THEN [active_connections EXCEPT ![client_id].connections = @ \cup {websocket}]
    ELSE [c \in DOMAIN active_connections \cup {client_id} |->
            IF c = client_id THEN [id |-> websocket, connections |-> {websocket}]
                             ELSE active_connections[c]]

\* active_connections after manager.disconnect(websocket, client_id)
disconnect(websocket, client_id) ==
  IF client_id \notin DOMAIN active_connections
    THEN active_connections
    ELSE IF active_connections[client_id].connections \ {websocket} = {}
      THEN [c \in DOMAIN active_connections \ {client_id} |-> active_connections[c]]
      ELSE [active_connections EXCEPT ![client_id].connections = @ \ {websocket}]

\* websocket_endpoint up to its first receive_text: a request without a
\* token that decodes is closed with 4401, another one is registered
EndpointConnect(websocket, client_id, token) ==
  /\ endpoints[websocket].pc = "new"
  /\ IF ~token
       THEN /\ endpoints' = [endpoints EXCEPT ![websocket].pc = "closed"]
            /\ UNCHANGED active_connections
       ELSE /\ active_connections' = connect(websocket, client_id)
            /\ endpoints' = [endpoints EXCEPT ![websocket].client_id = client_id,
                                              ![websocket].pc = "receive_text"]
  /\ UNCHANGED <<users, nextUserId, role_permissions, user_permissions,
                 client_permissions, cache, now, resp, sessions, last_inventory,
                 tokens>>

\* receive_text raises WebSocketDisconnect: the endpoint deregisters itself
EndpointDisconnect(websocket) ==
  /\ endpoints[websocket].pc = "receive_text"
  /\ active_connections' = disconnect(websocket, endpoints[websocket].client_id)
  /\ endpoints' = [endpoints EXCEPT ![websocket].pc = "closed"]
  /\ UNCHANGED <<users, nextUserId, role_permissions, user_permissions,
                 client_permissions, cache, now, resp, sessions, last_inventory,
                 tokens>>

\* the connections under a key of the dict
Registered(client_id) ==
  IF client_id \in DOMAIN active_connections
    THEN active_connections[client_id].connections
    ELSE {}

\* the members of the set object a suspended broadcast iterates: the object
\* under the key while it is the one the loop began with, and the emptied
\* object that disconnect took out of the dict otherwise
IteratedSet(websocket) ==
  LET client_id == endpoints[websocket].client_id
  IN IF /\ client_id \in DOMAIN active_connections
        /\ active_connections[client_id].id = endpoints[websocket].set
       THEN active_connections[client_id].connections
       ELSE {}

\* what a call of manager.broadcast by the endpoint of websocket did:
\* registered are the connections that were under the key from the start of
\* the call to its end
Broadcast(websocket, delivered, disconnected, error) ==
  [Response("broadcast", websocket, endpoints[websocket].client_id,
            IF error = "" THEN 200 ELSE 500, error)
     EXCEPT !.delivered = delivered,
            !.disconnected = disconnected,
            !.registered = endpoints[websocket].initial
                             \cap Registered(endpoints[websocket].client_id)]

\* a message arrives and manager.broadcast runs up to its first send_json;
\* without the key, or with an empty set, it returns at once
BroadcastBegin(websocket) ==
  LET client_id == endpoints[websocket].client_id
  IN /\ endpoints[websocket].pc = "receive_text"
     /\ IF Registered(client_id) = {}
          THEN /\ resp' = Broadcast(websocket, {}, {}, "")
               /\ UNCHANGED endpoints
          ELSE /\ \E connection \in Registered(client_id) :
                    endpoints' =
                      [endpoints EXCEPT ![websocket].pc = "send_json",
                                        ![websocket].set = active_connections[client_id].id,
                                        ![websocket].si_used = Cardinality(Registered(client_id)),
                                        ![websocket].initial = Registered(client_id),
                                        ![websocket].connection = connection]
               /\ UNCHANGED resp
     /\ UNCHANGED <<users, nextUserId, role_permissions, user_permissions,
                    client_permissions, cache, now, sessions, last_inventory,
                    tokens, active_connections>>

\* the endpoint after its broadcast ended: with an error the endpoint's
\* except clause has deregistered it and the coroutine has ended
Ended(websocket, error) ==
  [NoEndpoint EXCEPT !.client_id = endpoints[websocket].client_id,
                     !.pc = IF error = "" THEN "receive_text" ELSE "closed"]

\* send_json to the current connection returns (sent) or raises, and the for
\* loop asks the set iterator for the next member: the iterator raises
\* RuntimeError when the set's size is not the one it began with; it yields
\* a member it has not yielded; it stops when it has yielded every member
\* that was there when the loop began (a member added since is reached or
\* not, as its slot falls).  After the loop the failed connections are
\* discarded from the set under the key.
BroadcastResume(websocket, sent) ==
  LET e == endpoints[websocket]
      client_id == e.client_id
      delivered == IF sent THEN e.delivered \cup {e.connection} ELSE e.delivered
      disconnected == IF sent THEN e.disconnected ELSE e.disconnected \cup {e.connection}
      unvisited == IteratedSet(websocket) \ (delivered \cup disconnected)
  IN /\ e.pc = "send_json"
     /\ IF Cardinality(IteratedSet(websocket)) # e.si_used
          THEN /\ resp' = Broadcast(websocket, delivered, disconnected, "RuntimeError")
               /\ endpoints' = [endpoints EXCEPT ![websocket] = Ended(websocket, "RuntimeError")]
               /\ active_connections' = disconnect(websocket, client_id)
          ELSE \/ \E connection \in unvisited :
                    /\ endpoints' = [endpoints EXCEPT ![websocket].delivered = delivered,
                                                      ![websocket].disconnected = disconnected,
                                                      ![websocket].connection = connection]
                    /\ UNCHANGED <<resp, active_connections>>
               \/ /\ unvisited \cap e.initial = {}
                  /\ IF disconnected # {} /\ client_id \notin DOMAIN active_connections
                       THEN /\ resp' = Broadcast(websocket, delivered, disconnected, "KeyError")
                            /\ endpoints' = [endpoints EXCEPT ![websocket] = Ended(websocket, "KeyError")]
                            /\ active_connections' = disconnect(websocket, client_id)
                       ELSE /\ resp' = Broadcast(websocket, delivered, disconnected, "")
                            /\ endpoints' = [endpoints EXCEPT ![websocket] = Ended(websocket, "")]
                            /\ active_connections' =
                                 IF disconnected = {}
                                   THEN active_connections
                                   ELSE [active_connections EXCEPT
                                           ![client_id].connections = @ \ disconnected]
     /\ UNCHANGED <<users, nextUserId, role_permissions, user_permissions,
                    client_permissions, cache, now, sessions, last_inventory,
                    tokens>>

ChatConnect ==
  \E websocket \in Websockets, client_id \in Tenants, token \in BOOLEAN :
    EndpointConnect(websocket, client_id, token)

ChatDisconnect == \E websocket \in Websockets : EndpointDisconnect(websocket)

\* the endpoints whose broadcast is suspended in send_json
Broadcasting == {websocket \in Websockets : endpoints[websocket].pc = "send_json"}

ChatBroadcastBegin ==
  /\ Cardinality(Broadcasting) < MaxBroadcasts
  /\ \E websocket \in Websockets : BroadcastBegin(websocket)

ChatBroadcastResume ==
  \E websocket \in Websockets, sent \in BOOLEAN : BroadcastResume(websocket, sent)

\* the endpoint coroutines run on one event loop and interleave at their
\* awaits; the outcome of one broadcast is looked at before the next step
NextChat ==
  \/ Idle /\ ChatConnect
  \/ Idle /\ ChatDisconnect
  \/ Idle /\ ChatBroadcastBegin
  \/ Idle /\ ChatBroadcastResume
  \/ Deliver

SpecChat == InitPopulated /\ [][NextChat]_vars

(***************************************************************************)
(* Claims about user management (Spec).                                    *)
(***************************************************************************)
\* C1: after any sequence of register, create_user and update_user calls no
\* user other than user 1 holds the superadmin role.
C1_OnlyUserOneIsSuperadmin ==
  \A u \in DOMAIN users : RoleName(u) = "superadmin" => u = 1

\* C9: after any sequence of update_user and delete_user calls user 1 still
\* exists and still has the superadmin role.
C9_BootstrapSuperadminKept ==
  /\ 1 \in DOMAIN users
  /\ RoleName(1) = "superadmin"

(***************************************************************************)
(* Claims about role permissions (SpecRoles).                              *)
(***************************************************************************)
RoleCalls == {"grant_permissions_to_role", "revoke_permissions_from_role"}

\* a revoke of [p] that directly followed the successful grant of [p] to the
\* same role, both answered 200
RoundTrip ==
  /\ resp.op = "revoke_permissions_from_role"
  /\ resp.status = 200
  /\ resp.undo
  /\ Len(resp.names) = 1

\* C7 (as stated): after grant_permissions_to_role(role, [p]) and then
\* revoke_permissions_from_role(role, [p]) the role's permission set equals
\* what it was before the grant, from every starting state.
C7_GrantThenRevokeRestores ==
  RoundTrip => role_permissions[RoleByName(resp.role)] = resp.before

\* C7 (amended): the same, for a permission the role did not hold before the
\* grant.
C7_GrantThenRevokeRestoresNew ==
  RoundTrip /\ resp.names[1] \notin resp.before
    => role_permissions[RoleByName(resp.role)] = resp.before

\* C7 witness: a round trip of an existing permission the role did not hold,
\* in which the revoke removed what the grant had added
C7_Witness ==
  /\ RoundTrip
  /\ resp.names[1] \in Permissions \ resp.before
  /\ resp.perms = {resp.names[1]}

\* C8: every grant or revoke call that targets the superadmin role is answered
\* 403, and the superadmin role's permission set is never changed.
C8_SuperadminRoleImmutable ==
  /\ (resp.op \in RoleCalls /\ resp.role = "superadmin") => resp.status = 403
  /\ role_permissions[RoleByName("superadmin")] = SeedRolePermissions[RoleByName("superadmin")]

\* C8 witness: a caller who holds permissions.manage asked to revoke from the
\* superadmin role and was stopped by the role guard
C8_Witness ==
  /\ resp.op = "revoke_permissions_from_role"
  /\ resp.role = "superadmin"
  /\ resp.detail = "cannot_modify_superadmin_role"
  /\ has_permission(resp.caller, "permissions.manage")

(***************************************************************************)
(* Claims about effective permissions (SpecOverrides).                     *)
(***************************************************************************)
\* C2: has_permission(user, p) is true exactly when p is in the union of the
\* permissions of the user's role and the user's override permissions.
C2_GateIsEffectivePermissions ==
  \A u \in DOMAIN users, p \in Permissions :
    has_permission(u, p) <=> p \in EffectivePermissions(u)

\* an answered effective-permission query
EffectiveAnswer ==
  /\ resp.op = "get_user_effective_permissions"
  /\ resp.status = 200

C4_ListClientsIsAssignmentRows ==
  (resp.op = "list_clients" /\ resp.status = 200) =>
    resp.ids = IF resp.role = "superadmin"
                 THEN Tenants
                 ELSE {c \in Tenants :
                         \E row \in client_permissions :
                           row.user_id = resp.caller /\ row.client_id = c}

\* C4 witness: a caller who is not superadmin was listed a client, and
\* neither the caller's tenant_id nor the caller's assigned_client_id is
\* among the clients listed
C4_Witness ==
  /\ resp.op = "list_clients"
  /\ resp.status = 200
  /\ resp.role # "superadmin"
  /\ resp.ids # {}
  /\ users[resp.caller].tenant_id \notin resp.ids
  /\ users[resp.caller].assigned_client_id \in Tenants \ resp.ids

\* a call of update_user_client_permissions by a user whose role is not
\* superadmin, with a payload that names a client the caller cannot see
AssignsUnseenClient ==
  /\ Idle
  /\ resp'.op = "update_user_client_permissions"
  /\ resp'.caller \in DOMAIN users
  /\ RoleName(resp'.caller) # "superadmin"
  /\ resp'.requested \ visible_clients(resp'.caller) # {}

\* the call is answered 403 with the unauthorized client ids, and the rows
\* are as they were
UnseenClientsNamed ==
  /\ resp'.status = 403
  /\ resp'.detail = "unauthorized_clients"
  /\ resp'.ids = resp'.requested \ AssignedClients(resp'.caller)
  /\ client_permissions' = client_permissions

Privilege(role_name) ==
  CASE role_name = "superadmin" -> 3
    [] role_name = "admin" -> 2
    [] OTHER -> 1

\* C6: a call of update_user_client_permissions by an actor whose role is not
\* superadmin succeeds only for a target whose role is strictly less
\* privileged than the actor's; a call that targets a peer or a more
\* privileged user is answered 403.
C6_TargetStrictlyLessPrivileged ==
  (/\ resp.op = "update_user_client_permissions"
   /\ resp.caller \in DOMAIN users
   /\ resp.target \in DOMAIN users
   /\ RoleName(resp.caller) # "superadmin"
   /\ Privilege(RoleName(resp.target)) >= Privilege(RoleName(resp.caller)))
    => resp.status = 403

(***************************************************************************)
(* Claims about the inventory and the client record (SpecInventory).       *)
(***************************************************************************)
\* C3: when a user whose role is not superadmin requests the inventory or the
\* record of a client that is not in visible_clients(user), the request is
\* answered 403 and it reads no cache row, fetches nothing and writes no
\* cache row.
C3_InventoryBehindGate ==
  (/\ resp.op \in {"get_resource_inventory", "get_client"}
   /\ resp.caller \in DOMAIN users
   /\ RoleName(resp.caller) # "superadmin"
   /\ resp.target \in Tenants \ visible_clients(resp.caller))
    => (resp.status = 403 /\ resp.steps = <<>>)

(***************************************************************************)
(* Claims about overlapping assignment requests (SpecOverlap).             *)
(***************************************************************************)
\* no two committed rows have the same (user_id, client_id)
OneRowPerPair ==
  \A row, other \in client_permissions : Pair(row) = Pair(other) => row = other

\* a request that ended with the IntegrityError left the committed rows as
\* they were
DuplicateLeavesRows ==
  (Idle /\ resp'.detail = "integrity_error") => client_permissions' = client_permissions

\* C11: in every reachable state there is at most one UserClientPermission
\* row per (user, client) pair, also after a payload that lists a client
\* twice and after overlapping calls for one target; a call that would create
\* a duplicate leaves the committed assignments in place.
C11_OneRowPerUserAndClient ==
  [](OneRowPerPair) /\ [][DuplicateLeavesRows]_vars

\* C11 witness: a request whose payload names the last client once ended
\* with the IntegrityError after its own DELETE had removed a row of another
\* client: the row it collided with was committed by a request that
\* overlapped it, and the row it had removed is in place
C11_Witness ==
  /\ resp.detail = "integrity_error"
  /\ resp.requested = {MaxClients}
  /\ resp.before # {}
  /\ \A row \in resp.before : row.client_id # MaxClients
  /\ resp.before \subseteq client_permissions
  /\ \E row \in client_permissions : Pair(row) = <<resp.target, MaxClients>>

(***************************************************************************)
(* Claims about the inventory cache (SpecCache).                           *)
(***************************************************************************)
\* a force_refresh=false call for a client is answered, and the client has
\* an earlier force_refresh=false answer with no force_refresh=true call
\* since
SecondInventoryCall ==
  /\ Idle
  /\ resp'.op = "get_resource_inventory"
  /\ resp'.status = 200
  /\ ~resp'.force_refresh
  /\ last_inventory[resp'.target] # NoCall

\* the answer is a cache hit with the payload of the earlier answer
SameAsLastInventory ==
  /\ resp'.cached
  /\ resp'.resources = last_inventory[resp'.target].resources
  /\ resp'.summary = last_inventory[resp'.target].summary

InventoryAnswer ==
  /\ Idle
  /\ resp'.op = "get_resource_inventory"
  /\ resp'.status = 200

\* the call stored one row, for its tenant and provider, with the resources
\* and the fetched_at it returned
StoredOneSnapshot ==
  /\ Len(cache') = Len(cache) + 1
  /\ \A i \in 1..Len(cache) : cache'[i] = cache[i]
  /\ cache'[Len(cache')].client_id = resp'.target
  /\ cache'[Len(cache')].provider = Provider(resp'.target)
  /\ cache'[Len(cache')].resources = resp'.resources
  /\ cache'[Len(cache')].fetched_at = resp'.fetched_at

C14_FirstCallFetchesOnceStoresOnce ==
  [][(/\ InventoryAnswer
      /\ ~resp'.force_refresh
      /\ \A i \in 1..Len(cache) :
           ~(cache[i].client_id = resp'.target /\ cache[i].provider = Provider(resp'.target)))
       => /\ ~resp'.cached
          /\ resp'.steps = <<"cache_read", "fetch", "cache_write">>
          /\ StoredOneSnapshot]_vars

\* C14 witness: the first call for a tenant, answered from a fetch while the
\* cache held a fresh snapshot of another tenant
C14_Witness ==
  /\ resp.op = "get_resource_inventory"
  /\ resp.status = 200
  /\ ~resp.force_refresh
  /\ ~resp.cached
  /\ Cardinality(CacheEntries(resp.target, Provider(resp.target))) = 1
  /\ \E i \in 1..Len(cache) : cache[i].client_id # resp.target /\ CacheValid(cache[i])

\* the fetched_at values of the snapshots of the tenant of the call
SnapshotTimes ==
  {cache[i].fetched_at :
     i \in {j \in 1..Len(cache) : /\ cache[j].client_id = resp'.target
                                  /\ cache[j].provider = Provider(resp'.target)}}

\* the most recent of them
MostRecentTime == CHOOSE t \in SnapshotTimes : \A u \in SnapshotTimes : u <= t

C16_UnknownProviderEmptyUnsetIsAws ==
  (resp.op = "get_resource_inventory" /\ resp.target \in Tenants) =>
    /\ resp.status = 200
    /\ ProviderSetting(resp.target) = "" => resp.provider = "aws"
    /\ ProviderSetting(resp.target) \notin {"", "aws", "azure", "gcp", "AWS", "Azure", "GCP"} =>
         (/\ resp.resources.categories =
               {"compute", "database", "storage", "networking", "security",
                "analytics", "messaging"}
          /\ resp.resources.lists = {}
          /\ resp.summary = {})

\* C16 witness: the tenant with the provider Oracle was answered from a fetch
C16_Witness ==
  /\ resp.op = "get_resource_inventory"
  /\ resp.target \in Tenants
  /\ ProviderSetting(resp.target) = "Oracle"
  /\ resp.provider = "oracle"
  /\ resp.steps = <<"cache_read", "fetch", "cache_write">>
  /\ resp.status = 200

(***************************************************************************)
(* Claims about the provider fetcher (SpecFetcher).                        *)
(***************************************************************************)
\* the length of the list that a sub-service has in the result
ListLength(service) ==
  CHOOSE n \in 0..MaxItems : <<Category(service), service, n>> \in resp.resources.lists

\* C17: the fetcher never raises; whatever sub-service calls fail, every
\* failed sub-service has an empty list in the result and every sub-service
\* that succeeded has its data; without credentials, or when it fails as a
\* whole, all lists are empty and the result has an error entry.
C17_FailedSubServiceEmptyOthersKept ==
  resp.op = "fetch_aws_resources" =>
    /\ resp.status = 200
    /\ (resp.credentials /\ resp.clients) =>
         \A service \in SubServices :
           ListLength(service) = IF resp.outcomes[service].failed_after = -1
                                   THEN resp.outcomes[service].listed
                                   ELSE 0
    /\ ~(resp.credentials /\ resp.clients) =>
         (/\ \A service \in SubServices : ListLength(service) = 0
          /\ resp.detail # "")

(***************************************************************************)
(* Claims about recommendations (SpecRecommendations).                     *)
(***************************************************************************)
\* C18: for every existing tenant, whatever its provider and whether or not
\* the fetch or the analysis fails, get_optimization_recommendations
\* returns a well-formed response, never an unhandled failure.
C18_RecommendationsAlwaysAnswered ==
  (resp.op = "get_optimization_recommendations" /\ resp.target \in Tenants)
    => resp.status = 200

RecommendationsAnswer ==
  resp.op = "get_optimization_recommendations" /\ resp.status = 200

\* the positions of the findings that the claimed filter keeps
KeptPositions ==
  {i \in 1..Len(resp.found) :
     \/ resp.found[i].estimated_savings >= 20
     \/ resp.found[i].severity \in {"critical", "high"}}

\* C19: the recommendations returned are exactly the findings whose
\* estimated_savings is at least 0.20 or whose severity is critical or high.
C19_KeptIffSavingsOrSevere ==
  RecommendationsAnswer =>
    /\ Len(resp.recommendations) = Cardinality(KeptPositions)
    /\ {resp.recommendations[i].id : i \in 1..Len(resp.recommendations)}
         = {resp.found[i].id : i \in KeptPositions}

\* two findings with savings 0.10, one low and one critical: only the
\* critical one is returned
C19_Witness ==
  /\ RecommendationsAnswer
  /\ Len(resp.found) = 2
  /\ \A i \in 1..2 : resp.found[i].estimated_savings = 10
  /\ resp.found[1].severity = "low"
  /\ resp.found[2].severity = "critical"
  /\ Len(resp.recommendations) = 1
  /\ resp.recommendations[1].id = 2

\* the rank the claim gives to a severity
ClaimedRank(severity) ==
  CASE severity = "critical" -> 0
    [] severity = "high" -> 1
    [] severity = "medium" -> 2
    [] severity = "low" -> 3

\* C20: the recommendations returned are ordered by severity rank, critical
\* before high before medium before low, and findings of equal severity are
\* in the order in which the analysis emitted them.
C20_OrderedBySeverityStable ==
  RecommendationsAnswer =>
    \A i, j \in 1..Len(resp.recommendations) :
      i < j =>
        LET first == resp.recommendations[i]
            second == resp.recommendations[j]
        IN  /\ ClaimedRank(first.severity) <= ClaimedRank(second.severity)
            /\ first.severity = second.severity => first.id < second.id

\* emitted low, critical, medium, high; returned critical, high, medium, low
C20_Witness ==
  /\ RecommendationsAnswer
  /\ Len(resp.found) = 4
  /\ [i \in 1..4 |-> resp.found[i].severity] = <<"low", "critical", "medium", "high">>
  /\ Len(resp.recommendations) = 4
  /\ [i \in 1..4 |-> resp.recommendations[i].severity]
       = <<"critical", "high", "medium", "low">>

(***************************************************************************)
(* Claims about the enrichment step (SpecEnrichment).                      *)
(***************************************************************************)
\* the list that step 6 passes to the enrichment: the findings kept by the
\* filter, by severity, each severity in emission order
PassedToEnrichment ==
  LET kept == SelectSeq(resp.found,
                        LAMBDA rec : \/ rec.estimated_savings >= 20
                                     \/ rec.severity \in {"critical", "high"})
      OfSeverity(severity) == SelectSeq(kept, LAMBDA rec : rec.severity = severity)
  IN  OfSeverity("critical") \o OfSeverity("high") \o OfSeverity("medium")
        \o OfSeverity("low")

\* C21: when the enrichment fails (timeout, malformed answer, no API key, no
\* package, any other exception) the request returns normally and the
\* findings returned are the list passed in: same findings, same order, none
\* marked as enhanced.
C21_FailedEnrichmentLeavesFindings ==
  (/\ resp.op = "get_optimization_recommendations"
   /\ resp.target \in Tenants
   /\ resp.outcome # "fetch_raised"
   /\ resp.provider \in {"aws", "azure", "gcp"}
   /\ resp.llm.outcome # "answered")
    => /\ resp.status = 200
       /\ resp.recommendations = PassedToEnrichment
       /\ \A i \in 1..Len(resp.recommendations) : ~resp.recommendations[i].ai_enhanced

\* the request timed out with high-value findings in the prompt
C21_Witness ==
  /\ resp.op = "get_optimization_recommendations"
  /\ resp.status = 200
  /\ resp.llm.outcome = "timeout"
  /\ Len(resp.recommendations) >= 2
  /\ \E i \in 1..Len(resp.recommendations) : resp.recommendations[i].severity = "high"
  /\ \A i \in 1..Len(resp.recommendations) : ~resp.recommendations[i].ai_enhanced

(***************************************************************************)
(* Claims about tokens (SpecTokens).                                       *)
(***************************************************************************)
\* the role permissions that the store holds now for the user of the request
StoredPermissions ==
  IF resp.caller \in DOMAIN users
    THEN role_permissions[users[resp.caller].role_id]
    ELSE {}

\* C22: every permission check is answered from the store as it is at the
\* time of the request: once a revocation from a role or a role change has
\* committed, a check for an affected user is refused, whatever the token of
\* the request says.
C22_CheckObservesStore ==
  resp.op = "require_permission" =>
    (resp.status = 200 <=> resp.names[1] \in StoredPermissions)

\* a check is refused for a permission that the user held at login, after a
\* revocation from the user's role and after a change of the user's role
C22_Witness ==
  /\ resp.op = "require_permission"
  /\ resp.status = 403
  /\ \E t \in TokensOf(resp.caller) :
       /\ resp.names[1] \in t.permissions
       /\ \/ t.role = RoleName(resp.caller)
          \/ resp.names[1] \in SeedRolePermissions[RoleByName(t.role)]

\* C29: a user who has been deactivated passes no permission gate: every
\* later check for that user is refused, also with a token issued before the
\* deactivation or obtained from /auth/refresh.
C29_DeactivatedUserPassesNoGate ==
  (/\ resp.op = "require_permission"
   /\ resp.caller \in DOMAIN users
   /\ ~users[resp.caller].is_active)
    => resp.status = 403

(***************************************************************************)
(* Claims about the stored snapshots (SpecCache).                          *)
(***************************************************************************)
\* the step leaves every stored row as it is and adds at most one row, which
\* carries the time of the step
AppendsOnly ==
  \/ cache' = cache
  \/ /\ Len(cache') = Len(cache) + 1
     /\ SubSeq(cache', 1, Len(cache)) = cache
     /\ cache'[Len(cache')].fetched_at = now

C24_ReadFetchWriteRespond ==
  (resp.op = "get_resource_inventory" /\ resp.status = 200) =>
    IF resp.cached
      THEN resp.steps = <<"cache_read">>
      ELSE /\ resp.steps = (IF resp.force_refresh THEN <<>> ELSE <<"cache_read">>)
                             \o <<"fetch", "cache_write">>
           /\ \E i \in 1..Len(cache) :
                /\ cache[i].client_id = resp.target
                /\ cache[i].fetched_at = resp.fetched_at
                /\ cache[i].resources = resp.resources

\* a fetching invocation answers while another one is between its cache
\* read and its write
C24_Witness ==
  /\ resp.op = "get_resource_inventory"
  /\ ~resp.cached
  /\ resp.steps = <<"cache_read", "fetch", "cache_write">>
  /\ \E s \in Sessions : sessions[s].pc \in {"fetch", "write"}

\* an invocation that is past its cache read fetches, adds its own row and
\* answers cached=false with what it fetched, whatever has been stored since
OwnFetchOwnSnapshot(s) ==
  /\ sessions[s].pc = "fetch" => sessions'[s].pc \in {"fetch", "write"}
  /\ (sessions[s].pc = "write" /\ sessions'[s].pc # "write") =>
       /\ sessions'[s].pc = "respond"
       /\ Len(cache') = Len(cache) + 1
       /\ cache'[Len(cache')].resources = sessions[s].resources
  /\ (sessions[s].pc = "respond" /\ sessions'[s].pc # "respond") =>
       /\ ~resp'.cached
       /\ resp'.resources = sessions[s].resources
       /\ resp'.fetched_at = sessions[s].fetched_at

MostRecentRows ==
  {i \in 1..Len(cache) :
     /\ cache[i].client_id = resp'.target
     /\ \A j \in 1..Len(cache) :
          cache[j].client_id = resp'.target => cache[j].fetched_at <= cache[i].fetched_at}

\* C28: a fetch result with an error entry is stored as a snapshot like any
\* other; a later non-forced get_inventory within 30 minutes of it returns
\* that snapshot with cached=true and fetches nothing, and only
\* force_refresh=true or expiry leads to a new fetch.
C28_ErrorResultIsCached ==
  [][(resp'.op = "get_resource_inventory" /\ resp'.status = 200) =>
       /\ (~resp'.cached /\ resp'.resources.error # "") =>
            /\ Len(cache') = Len(cache) + 1
            /\ SubSeq(cache', 1, Len(cache)) = cache
            /\ cache'[Len(cache')].resources = resp'.resources
            /\ cache'[Len(cache')].fetched_at = resp'.fetched_at
       /\ \A i \in MostRecentRows :
            cache[i].resources.error # "" =>
              IF ~resp'.force_refresh
                   /\ now - cache[i].fetched_at < METRICS_CACHE_TTL_MINUTES
                THEN /\ resp'.cached
                     /\ resp'.resources = cache[i].resources
                     /\ resp'.fetched_at = cache[i].fetched_at
                     /\ resp'.steps = <<"cache_read">>
                     /\ cache' = cache
                ELSE ~resp'.cached]_vars

\* the result for missing credentials is answered from the cache
C28_Witness ==
  /\ resp.op = "get_resource_inventory"
  /\ resp.cached
  /\ resp.resources.error # ""
  /\ resp.fetched_at < now

(***************************************************************************)
(* Claims about overlapping assignment requests (SpecRace, SpecOverlap).   *)
(***************************************************************************)
\* C26: when an update_user_client_permissions call of an actor who is not
\* superadmin commits, every client it assigns is in visible_clients(actor)
\* at that moment, also when another call changed the actor's own rows
\* between the actor's authorization check and the commit.
C26_AssignedClientsVisibleAtCommit ==
  [][(/\ resp'.op = "update_user_client_permissions"
      /\ resp'.status = 200
      /\ RoleName(resp'.caller) # "superadmin")
       => resp'.ids \subseteq visible_clients(resp'.caller)]_vars

\* the clients the committed rows assign to a user
AssignedTo(user_id) ==
  {row.client_id : row \in {r \in client_permissions' : r.user_id = user_id}}

\* C27: update_user_client_permissions replaces the target's assignments as
\* a whole: when a call is answered 200 the target's committed rows name
\* exactly the clients of one payload, its own or, when calls for the target
\* overlapped, that of one of them; the rows are never a mixture of two
\* payloads.
C27_AssignmentsReplacedAsAWhole ==
  [][(/\ resp'.op = "update_user_client_permissions"
      /\ resp'.status = 200)
       => \E permissions \in OverlappingLists :
            AssignedTo(resp'.target) = RequestedClients(permissions)]_vars

(***************************************************************************)
(* Claims about the chat websocket (SpecChat).                             *)
(***************************************************************************)
\* a call of manager.broadcast ends in this step
BroadcastEnds == Idle /\ resp'.op = "broadcast"

\* the broadcast that ends raised nothing and sent the message to every
\* connection that was registered throughout and whose send did not fail
DeliversToRegistered ==
  BroadcastEnds =>
    /\ resp'.status = 200
    /\ resp'.registered \ resp'.disconnected \subseteq resp'.delivered

\* the broadcast that returns took out of the dict the connections whose
\* send failed and no other
RemovesOnlyFailed ==
  (BroadcastEnds /\ resp'.status = 200) =>
    \A client_id \in Tenants :
      IF client_id = resp'.target
        THEN /\ client_id \in DOMAIN active_connections
                  => client_id \in DOMAIN active_connections'
             /\ client_id \in DOMAIN active_connections'
                  => active_connections'[client_id].connections
                       = active_connections[client_id].connections \ resp'.disconnected
        ELSE /\ client_id \in DOMAIN active_connections
                  <=> client_id \in DOMAIN active_connections'
             /\ client_id \in DOMAIN active_connections
                  => active_connections'[client_id] = active_connections[client_id]

\* no key of the dict is mapped to an empty set
NoEmptyConnectionSet ==
  \A client_id \in DOMAIN active_connections :
    active_connections[client_id].connections # {}

\* C30: ConnectionManager.broadcast for a client completes without error and
\* delivers the message to every connection that stays registered for that
\* client, also when connect or disconnect for the client runs while the
\* broadcast is suspended in send_json; only the connections whose send
\* failed are removed; and after any sequence of connect, disconnect and
\* broadcast no client key is mapped to an empty connection set.
C30_BroadcastCompletesAndDelivers ==
  /\ [][DeliversToRegistered]_vars
  /\ [][RemovesOnlyFailed]_vars
  /\ [](NoEmptyConnectionSet)

====
